---- MODULE Spec2Model ----
(***************************************************************************)
(* Model of the FoodFast backend's real-time delivery subsystem:           *)
(*   - order status updates and the Redis status cache (routes/orders.js,  *)
(*     routes/restaurant.js, sockets/restaurantHandler.js),                *)
(*   - the SSE registry for driver locations (routes/driver.js),           *)
(*   - the long-polling status wait for image uploads (routes/images.js).  *)
(* Each async handler is split at its awaits, so that other handlers can   *)
(* interleave exactly where the event loop lets them.                      *)
(***************************************************************************)
EXTENDS Integers, Sequences, FiniteSets, TLC

VARIABLES
  orders,          \* orders table: order id -> row
  cache,           \* Redis keys order_status:<id> -> snapshot or NoEntry
  putReq,          \* in-flight PUT /api/orders/:id/status requests
  sock,            \* socket.io sockets: session fields and restaurant room
  sseConnections,  \* driver.js: Map orderId -> Set of open SSE responses
  conn,            \* the SSE connections (req/res pairs) and their handlers
  locCache,        \* Redis keys driver_location:<id> -> last location or 0
  locReq,          \* in-flight PUT /api/driver/location requests
  locSeq,          \* number of location updates accepted so far
  redisQ,          \* commands sent on the Redis client that await their reply
  upload,          \* the image_uploads row of one upload
  proc,            \* position of processImageAsync for that upload
  waiter,          \* GET /api/images/status/:uploadId requests (long polls)
  getReq,          \* GET /api/orders/:id/status requests (short polls)
  redisUp,         \* whether the Redis client's commands succeed
  chats,           \* support_chats table: chat id -> row
  sendReq,         \* per socket, its send-message handler in flight
  inbox,           \* per socket, the chat events the client has received
  msgSeq,          \* chat_messages rows inserted so far
  takeReq,         \* in-flight POST /api/support/agent/take/:chatId requests
  xferReq,         \* per socket, its transfer-chat handler in flight
  announcements,   \* announcements table: the rows, in order of their ids
  annReq,          \* per process, its POST /api/announcements in flight
  pubsub,          \* per process, messages Redis has sent to its subscriber
  subs,            \* per process, the channels its subscriber listens to
  boot,            \* per process, the position of startServer
  annInbox,        \* per socket, the new-announcement events received
  evt,             \* outcome of the handler step just taken (observer)
  now              \* Date.now() in ms

orderVars == <<orders, cache, putReq, sock>>
streamVars == <<sseConnections, conn, locCache, locReq, locSeq, redisQ>>
pollVars == <<upload, proc, waiter>>
cacheVars == <<getReq, redisUp>>
chatVars == <<chats, sendReq, inbox, msgSeq, takeReq, xferReq>>
annVars == <<announcements, annReq, pubsub, subs, boot, annInbox>>
vars == <<orders, cache, putReq, sock, sseConnections, conn, locCache, locReq,
          locSeq, redisQ, upload, proc, waiter, getReq, redisUp, chats, sendReq, inbox,
          msgSeq, takeReq, xferReq, announcements, annReq, pubsub, subs, boot,
          annInbox, evt, now>>

-----------------------------------------------------------------------------
(* Bounds *)
MaxOrders == 1
MaxPutReqs == 1
MaxSockets == 3
MaxSharedSockets == 1
MaxRoomSockets == 2
MaxLeaveHandles == 2
MaxChats == 2
MaxMsgs == 1
MaxTakeReqs == 2
MaxProcs == 2
MaxAnns == 1
MaxHandles == 3
MaxLocReqs == 2
MaxUpdates == 2
MaxWaiters == 1
MaxGetReqs == 1
MaxTicks == 3

OrderIds == 1..MaxOrders
PutReqs == 1..MaxPutReqs
Sockets == 1..MaxSockets
SharedSockets == 1..MaxSharedSockets
RoomSockets == 1..MaxRoomSockets
LeaveHandles == 1..MaxLeaveHandles
Chats == 1..MaxChats
TakeReqs == 1..MaxTakeReqs
Procs == 1..MaxProcs
Handles == 1..MaxHandles
LocReqs == 1..MaxLocReqs

\* the stream specification follows one location request, the push
\* specification all of them
StreamLocReqs == {q \in LocReqs : \A r \in LocReqs : q <= r}
Waiters == 1..MaxWaiters
GetReqs == 1..MaxGetReqs

-----------------------------------------------------------------------------
(* Users, as rows of the users and restaurants tables *)
Customers == {"c1", "c2"}
RestUsers == {"r1", "r2"}
Drivers == {"d1", "d2"}
SupportUsers == {"s1"}
Users == Customers \cup RestUsers \cup Drivers \cup SupportUsers
NoUser == "null"

UserType(u) ==
  IF u \in Customers THEN "customer"
  ELSE IF u \in RestUsers THEN "restaurant"
  ELSE IF u \in Drivers THEN "driver"
  ELSE "support"

Restaurants == {"R1", "R2"}
NoRestaurant == "null"
\* restaurants.user_id
RestaurantUser(R) == IF R = "R1" THEN "r1" ELSE "r2"

-----------------------------------------------------------------------------
(* Order rows and the status cache *)
validStatuses ==
  {"confirmed", "preparing", "ready", "picked_up", "delivered", "cancelled"}
restaurantStatuses == {"preparing", "ready"}
driverStatuses == {"picked_up", "delivered"}
socketValidStatuses == {"preparing", "ready", "cancelled"}
cancellableStatuses == {"confirmed", "preparing", "ready"}
\* a status string that is in no list of the code
BogusStatus == "refunded"
StatusInputs == validStatuses \cup {BogusStatus}

NoOrder ==
  [state |-> "none", status |-> "none", customer |-> NoUser,
   restaurant |-> NoRestaurant, driver |-> NoUser]

\* a row the other connections can see (READ COMMITTED)
Visible(o) == orders[o].state = "committed"

NoEntry == [present |-> FALSE, status |-> "none", lastUpdated |-> 0, expiresAt |-> 0]

CacheTtlMs == 3600000

\* redis setEx(key, ttl, JSON.stringify(value))
setWithExpiry(c, o, status, t) ==
  [c EXCEPT ![o] = [present |-> TRUE, status |-> status,
                    lastUpdated |-> t, expiresAt |-> t + CacheTtlMs]]

\* redis get(key): null once the key has expired
get(c, o, t) == IF c[o].present /\ t < c[o].expiresAt THEN c[o] ELSE NoEntry

IdlePut == [pc |-> "idle", user |-> NoUser, order |-> 0, status |-> "none"]
\* the fields the handlers keep on the socket object, and its rooms
NoSock ==
  [userId |-> NoUser, restaurantId |-> NoRestaurant, inRoom |-> FALSE,
   userType |-> "none", chatId |-> 0, rooms |-> {}, annRooms |-> {},
   connected |-> TRUE]

\* the observable outcome of a step: the handler, its answer and, when the
\* step wrote the orders table, the authenticated user it ran for
Evt(op, code, writer) ==
  [op |-> op, code |-> code, writer |-> writer, size |-> 0]

-----------------------------------------------------------------------------
(* POST /api/orders: the insert and the cache write run inside the         *)
(* transaction callback, COMMIT follows.                                   *)
CreateOrderTx(u, o, R) ==
  /\ UserType(u) = "customer"
  /\ orders[o].state = "none"
  /\ \A p \in OrderIds : p < o => orders[p].state # "none"
  /\ IF redisUp
     THEN /\ orders' = [orders EXCEPT ![o] =
               [state |-> "open", status |-> "confirmed", customer |-> u,
                restaurant |-> R, driver |-> NoUser]]
          /\ cache' = setWithExpiry(cache, o, "confirmed", now)
          /\ evt' = Evt("createTx", 0, u)
     \* setWithExpiry throws: ROLLBACK, and the catch block answers 500
     ELSE /\ evt' = Evt("create", 500, NoUser)
          /\ UNCHANGED <<orders, cache>>
  /\ UNCHANGED <<putReq, sock, now, streamVars, pollVars, cacheVars, chatVars, annVars>>

CreateOrderCommit(o) ==
  /\ orders[o].state = "open"
  /\ orders' = [orders EXCEPT ![o].state = "committed"]
  /\ evt' = Evt("create", 201, NoUser)
  /\ UNCHANGED <<cache, putReq, sock, now, streamVars, pollVars, cacheVars, chatVars, annVars>>

\* COMMIT fails: the transaction helper's catch block sends ROLLBACK and
\* throws, and the route's catch block answers 500. The rows are gone; the id
\* the insert drew from the sequence is not given out again
CreateOrderRollback(o) ==
  /\ orders[o].state = "open"
  /\ orders' = [orders EXCEPT ![o] = [NoOrder EXCEPT !.state = "aborted"]]
  /\ evt' = Evt("create", 500, NoUser)
  /\ UNCHANGED <<cache, putReq, sock, now, streamVars, pollVars, cacheVars, chatVars, annVars>>

-----------------------------------------------------------------------------
(* PUT /api/orders/:orderId/status *)

\* UPDATE ... FROM restaurants r WHERE orders.id = $2 AND
\*   orders.restaurant_id = r.id AND r.user_id = $3
RestaurantUpdateMatches(o, u) ==
  /\ Visible(o)
  /\ RestaurantUser(orders[o].restaurant) = u

\* the driver update without its guard on driver_id
DriverUpdateUnguarded(o, u) == Visible(o)

\* UPDATE ... WHERE id = $3 AND (driver_id IS NULL OR driver_id = $2)
DriverUpdateMatches(o, u) ==
  /\ Visible(o)
  /\ (orders[o].driver = NoUser \/ orders[o].driver = u)

PutStatusUpdate(r, u, o, status) ==
  /\ putReq[r].pc = "idle"
  /\ UNCHANGED <<cache, sock, now, streamVars, pollVars, cacheVars, chatVars, annVars>>
  /\ IF status \notin validStatuses
     THEN /\ evt' = Evt("putStatus", 400, NoUser)
          /\ UNCHANGED <<orders, putReq>>
     ELSE IF UserType(u) = "restaurant"
     THEN IF status \notin restaurantStatuses
          THEN /\ evt' = Evt("putStatus", 400, NoUser)
               /\ UNCHANGED <<orders, putReq>>
          ELSE IF RestaurantUpdateMatches(o, u)
          THEN /\ orders' = [orders EXCEPT ![o].status = status]
               /\ putReq' = [putReq EXCEPT ![r] =
                    [pc |-> "get", user |-> u, order |-> o, status |-> status]]
               /\ evt' = Evt("putStatusUpdate", 0, u)
          ELSE /\ evt' = Evt("putStatus", 404, NoUser)
               /\ UNCHANGED <<orders, putReq>>
     ELSE IF UserType(u) = "driver"
     THEN IF status \notin driverStatuses
          THEN /\ evt' = Evt("putStatus", 400, NoUser)
               /\ UNCHANGED <<orders, putReq>>
          ELSE IF DriverUpdateMatches(o, u)
          THEN /\ orders' = [orders EXCEPT ![o].status = status, ![o].driver = u]
               /\ putReq' = [putReq EXCEPT ![r] =
                    [pc |-> "get", user |-> u, order |-> o, status |-> status]]
               /\ evt' = Evt("putStatusUpdate", 0, u)
          ELSE /\ evt' = Evt("putStatus", 404, NoUser)
               /\ UNCHANGED <<orders, putReq>>
     ELSE /\ evt' = Evt("putStatus", 403, NoUser)
          /\ UNCHANGED <<orders, putReq>>

\* const cachedStatus = await get(...); without an entry the handler answers
PutStatusGet(r) ==
  /\ putReq[r].pc = "get"
  /\ UNCHANGED <<orders, cache, sock, now, streamVars, pollVars, cacheVars, chatVars, annVars>>
  /\ IF ~redisUp
     \* get throws; the UPDATE has been done, the catch block answers 500
     THEN /\ putReq' = [putReq EXCEPT ![r] = IdlePut]
          /\ evt' = Evt("putStatus", 500, NoUser)
     ELSE IF get(cache, putReq[r].order, now).present
     THEN /\ putReq' = [putReq EXCEPT ![r].pc = "set"]
          /\ evt' = Evt("putStatusGet", 0, NoUser)
     ELSE /\ putReq' = [putReq EXCEPT ![r] = IdlePut]
          /\ evt' = Evt("putStatus", 200, NoUser)

\* cachedStatus.status = updatedOrder.status; await setWithExpiry(...); res.json
PutStatusSet(r) ==
  /\ putReq[r].pc = "set"
  /\ putReq' = [putReq EXCEPT ![r] = IdlePut]
  /\ IF redisUp
     THEN /\ cache' = setWithExpiry(cache, putReq[r].order, putReq[r].status, now)
          /\ evt' = Evt("putStatus", 200, NoUser)
     ELSE /\ evt' = Evt("putStatus", 500, NoUser)
          /\ UNCHANGED cache
  /\ UNCHANGED <<orders, sock, now, streamVars, pollVars, cacheVars, chatVars, annVars>>

-----------------------------------------------------------------------------
(* GET /api/orders/:orderId/status, the short poll, and the Redis client *)

cacheFreshMs == 30000

IdleGet ==
  [pc |-> "idle", user |-> NoUser, order |-> 0,
   status |-> "none",     \* the status read from the store, then the one answered
   fromCache |-> FALSE, code |-> 0]

\* a cached snapshot that is served whatever its age
FreshAtAnyAge(e, t) == e.present

\* cachedStatus && cachedStatus.lastUpdated && cacheAge < 30000
Fresh(e, t) == e.present /\ t - e.lastUpdated < cacheFreshMs

\* the answer of a short poll; the request slot is free again
getAnswer(g, u, o, code, status, fromCache) ==
  [getReq EXCEPT ![g] = [pc |-> "idle", user |-> u, order |-> o,
                         status |-> status, fromCache |-> fromCache, code |-> code]]

\* await get(`order_status:${orderId}`) and the use of a fresh entry
GetStatusCache(g, u, o) ==
  /\ getReq[g].pc = "idle"
  /\ UNCHANGED <<orders, cache, putReq, sock, redisUp, now, streamVars, pollVars, chatVars, annVars>>
  /\ IF ~redisUp
     THEN /\ getReq' = getAnswer(g, u, o, 500, "none", FALSE)
          /\ evt' = Evt("getStatus", 500, NoUser)
     ELSE IF Fresh(get(cache, o, now), now)
     THEN /\ getReq' = getAnswer(g, u, o, 200, get(cache, o, now).status, TRUE)
          /\ evt' = Evt("getStatus", 200, NoUser)
     ELSE /\ getReq' = [getReq EXCEPT ![g] =
               [IdleGet EXCEPT !.pc = "query", !.user = u, !.order = o]]
          /\ evt' = Evt("getStatusCache", 0, NoUser)

\* the SELECT on orders and the authorization check on its row
GetStatusQuery(g) ==
  LET u == getReq[g].user
      o == getReq[g].order
  IN
  /\ getReq[g].pc = "query"
  /\ UNCHANGED <<orders, cache, putReq, sock, redisUp, now, streamVars, pollVars, chatVars, annVars>>
  /\ IF ~Visible(o)
     THEN /\ getReq' = getAnswer(g, u, o, 404, "none", FALSE)
          /\ evt' = Evt("getStatus", 404, NoUser)
     ELSE IF \/ (UserType(u) = "customer" /\ orders[o].customer # u)
             \/ (UserType(u) = "restaurant"
                   /\ RestaurantUser(orders[o].restaurant) # u)
     THEN /\ getReq' = getAnswer(g, u, o, 403, "none", FALSE)
          /\ evt' = Evt("getStatus", 403, NoUser)
     ELSE /\ getReq' = [getReq EXCEPT ![g].pc = "write",
                                      ![g].status = orders[o].status]
          /\ evt' = Evt("getStatusQuery", 0, NoUser)

\* lastUpdated: new Date(); await setWithExpiry(..., 3600); res.json
GetStatusWrite(g) ==
  LET u == getReq[g].user
      o == getReq[g].order
  IN
  /\ getReq[g].pc = "write"
  /\ UNCHANGED <<orders, putReq, sock, redisUp, now, streamVars, pollVars, chatVars, annVars>>
  /\ IF redisUp
     THEN /\ cache' = setWithExpiry(cache, o, getReq[g].status, now)
          /\ getReq' = getAnswer(g, u, o, 200, getReq[g].status, FALSE)
          /\ evt' = Evt("getStatus", 200, NoUser)
     ELSE /\ getReq' = getAnswer(g, u, o, 500, "none", FALSE)
          /\ evt' = Evt("getStatus", 500, NoUser)
          /\ UNCHANGED cache

\* the Redis client starts to reject its commands (connection lost)
RedisFail ==
  /\ redisUp
  /\ redisUp' = FALSE
  /\ evt' = Evt("redis", "down", NoUser)
  /\ UNCHANGED <<orderVars, streamVars, pollVars, getReq, now, chatVars, annVars>>

RedisRecover ==
  /\ ~redisUp
  /\ redisUp' = TRUE
  /\ evt' = Evt("redis", "up", NoUser)
  /\ UNCHANGED <<orderVars, streamVars, pollVars, getReq, now, chatVars, annVars>>

\* time passes between two handler steps: half the freshness window, or a
\* whole cache lifetime
TickMs == cacheFreshMs \div 2

\* a wall clock that is set back to its start once it has run ahead
TickBackwards(d) ==
  /\ now' = IF now + d > TickMs THEN 0 ELSE now + d
  /\ evt' = Evt("tick", 0, NoUser)
  /\ UNCHANGED <<orderVars, streamVars, pollVars, cacheVars, chatVars, annVars>>

Tick(d) ==
  /\ now < MaxTicks * TickMs
  /\ now' = now + d
  /\ evt' = Evt("tick", 0, NoUser)
  /\ UNCHANGED <<orderVars, streamVars, pollVars, cacheVars, chatVars, annVars>>

-----------------------------------------------------------------------------
(* PUT /api/restaurant/orders/:orderId/{accept,ready,cancel} *)

\* a WHERE clause without the condition on orders.status
RestaurantRouteMatchesAnyStatus(o, u, from) ==
  RestaurantUpdateMatches(o, u)

\* authorize(['restaurant']) and the WHERE clause shared by the three routes
RestaurantRouteMatches(o, u, from) ==
  /\ RestaurantUpdateMatches(o, u)
  /\ orders[o].status \in from

RestaurantRoute(op, u, o, from, to) ==
  /\ UNCHANGED <<cache, putReq, sock, now, streamVars, pollVars, cacheVars, chatVars, annVars>>
  /\ IF UserType(u) # "restaurant"
     THEN /\ evt' = Evt(op, 403, NoUser)
          /\ UNCHANGED orders
     ELSE IF RestaurantRouteMatches(o, u, from)
     THEN /\ orders' = [orders EXCEPT ![o].status = to]
          /\ evt' = Evt(op, 200, u)
     ELSE /\ evt' = Evt(op, 404, NoUser)
          /\ UNCHANGED orders

AcceptOrder(u, o) == RestaurantRoute("accept", u, o, {"confirmed"}, "preparing")

ReadyOrder(u, o) == RestaurantRoute("ready", u, o, {"preparing"}, "ready")

CancelOrder(u, o, reason) ==
  IF UserType(u) = "restaurant" /\ ~reason
  THEN /\ evt' = Evt("cancel", 400, NoUser)
       /\ UNCHANGED <<orders, cache, putReq, sock, now, streamVars, pollVars, cacheVars, chatVars, annVars>>
  ELSE RestaurantRoute("cancel", u, o, cancellableStatuses, "cancelled")

-----------------------------------------------------------------------------
(* POST /api/driver/assign/:orderId *)

\* an assignment whose WHERE clause does not ask for driver_id IS NULL
AssignDriverAgain(u, o) ==
  /\ UNCHANGED <<cache, putReq, sock, now, streamVars, pollVars, cacheVars, chatVars, annVars>>
  /\ IF UserType(u) # "driver"
     THEN /\ evt' = Evt("assign", 403, NoUser)
          /\ UNCHANGED orders
     ELSE IF Visible(o) /\ orders[o].status = "ready"
     THEN /\ orders' = [orders EXCEPT ![o].driver = u]
          /\ evt' = Evt("assign", 200, u)
     ELSE /\ evt' = Evt("assign", 400, NoUser)
          /\ UNCHANGED orders

\* UPDATE orders SET driver_id = $1 WHERE id = $2 AND driver_id IS NULL AND
\* status = 'ready', and the answer
AssignDriver(u, o) ==
  /\ UNCHANGED <<cache, putReq, sock, now, streamVars, pollVars, cacheVars, chatVars, annVars>>
  /\ IF UserType(u) # "driver"
     THEN /\ evt' = Evt("assign", 403, NoUser)
          /\ UNCHANGED orders
     ELSE IF Visible(o) /\ orders[o].driver = NoUser /\ orders[o].status = "ready"
     THEN /\ orders' = [orders EXCEPT ![o].driver = u]
          /\ evt' = Evt("assign", 200, u)
     ELSE /\ evt' = Evt("assign", 400, NoUser)
          /\ UNCHANGED orders

-----------------------------------------------------------------------------
(* restaurantHandler socket events. A token is modelled by the user id     *)
(* jwt.verify decodes it to; NoUser stands for a missing or invalid token. *)
JoinRestaurant(s, tokenUser, R) ==
  /\ sock[s].connected
  /\ UNCHANGED <<orders, cache, putReq, now, streamVars, pollVars, cacheVars, chatVars, annVars>>
  /\ IF tokenUser = NoUser \/ RestaurantUser(R) # tokenUser
     THEN /\ evt' = Evt("join-restaurant", "error", NoUser)
          /\ UNCHANGED sock
     ELSE /\ sock' = [sock EXCEPT ![s].userId = tokenUser,
                                  ![s].restaurantId = R,
                                  ![s].inRoom = TRUE]
          /\ evt' = Evt("join-restaurant", "joined-restaurant", NoUser)

LeaveRestaurant(s) ==
  /\ sock[s].connected
  /\ sock[s].restaurantId # NoRestaurant
  /\ sock' = [sock EXCEPT ![s].inRoom = FALSE]
  /\ evt' = Evt("leave-restaurant", "ok", NoUser)
  /\ UNCHANGED <<orders, cache, putReq, now, streamVars, pollVars, cacheVars, chatVars, annVars>>

UpdateOrderStatus(s, o, status) ==
  /\ sock[s].connected
  /\ UNCHANGED <<cache, putReq, sock, now, streamVars, pollVars, cacheVars, chatVars, annVars>>
  /\ IF sock[s].restaurantId = NoRestaurant \/ sock[s].userId = NoUser
     THEN /\ evt' = Evt("update-order-status", "error", NoUser)
          /\ UNCHANGED orders
     ELSE IF status \notin socketValidStatuses
     THEN /\ evt' = Evt("update-order-status", "error", NoUser)
          /\ UNCHANGED orders
     ELSE IF RestaurantUpdateMatches(o, sock[s].userId)
     THEN /\ orders' = [orders EXCEPT ![o].status = status]
          /\ evt' = Evt("update-order-status", "status-update-confirmed", sock[s].userId)
     ELSE /\ evt' = Evt("update-order-status", "error", NoUser)
          /\ UNCHANGED orders

\* io.to(`restaurant-${restaurantId}`)
restaurantRoom(R) ==
  {t \in Sockets : sock[t].inRoom /\ sock[t].restaurantId = R}

\* notifyRestaurantNewOrder(io, restaurantId, orderData): the order is read
\* and a new-order event goes to the restaurant's room. The function is
\* exported by the handler module and called from nowhere: POST /api/orders
\* does not import it, so no step of the program takes this action.
notifyRestaurantNewOrder(R, o) ==
  /\ Visible(o)
  /\ inbox' = [t \in Sockets |->
       IF t \in restaurantRoom(R)
       THEN Append(inbox[t], [type |-> "new-order", id |-> o, chatId |-> 0,
                              senderId |-> orders[o].customer,
                              message |-> [pad |-> 0, body |-> 0]])
       ELSE inbox[t]]
  /\ evt' = [Evt("new-order", "emit", NoUser) EXCEPT
               !.size = Cardinality(restaurantRoom(R))]
  /\ UNCHANGED <<orderVars, streamVars, pollVars, cacheVars, annVars, chats,
                 sendReq, msgSeq, takeReq, xferReq, now>>

-----------------------------------------------------------------------------
(* Driver location stream (Server-Sent Events), routes/driver.js *)

NoEntrySet == [has |-> FALSE, conns |-> {}]

\* sseConnections.get(orderId): undefined without a key
RegisteredIn(m, o) == IF m[o].has THEN m[o].conns ELSE {}
Registered(o) == RegisteredIn(sseConnections, o)

IdleConn ==
  [pc |-> "idle", order |-> 0,
   closed |-> FALSE,       \* the client has gone away
   closeEmitted |-> FALSE, \* req has emitted 'close'
   timer |-> FALSE,        \* heartbeatInterval is running
   broken |-> FALSE,       \* res.write throws
   snap |-> 0,             \* what get(`driver_location:${orderId}`) answers
   since |-> 0,            \* updates accepted before the authorisation (observer)
   written |-> <<>>]       \* location updates written to res, in order

IdleLoc == [pc |-> "idle", driver |-> NoUser, order |-> 0, n |-> 0]

\* a request that has been answered 200: each slot is one HTTP request
DoneLoc == [IdleLoc EXCEPT !.pc = "done"]

deliveryStatuses == {"picked_up", "ready"}

\* get and setWithExpiry call the one `client`: its commands go down one
\* connection in call order, Redis runs them in that order and the replies
\* come back in that order. A command takes effect in its place in that
\* order, which is the place it was sent at; redisQ holds the commands whose
\* reply the caller is still awaiting
redisCommand(kind, id) == [kind |-> kind, id |-> id]

redisSent(kind, id) == Append(redisQ, redisCommand(kind, id))

\* a client whose replies come back in any order
redisAnswersInAnyOrder(kind, id) ==
  \E i \in DOMAIN redisQ : redisQ[i] = redisCommand(kind, id)

\* the next reply is the one to the command sent first
redisAnswers(kind, id) ==
  /\ redisQ # <<>>
  /\ Head(redisQ) = redisCommand(kind, id)

redisAnswered(kind, id) ==
  SelectSeq(redisQ, LAMBDA c : c # redisCommand(kind, id))

\* GET /location/:orderId/stream up to its await on get(): authorization,
\* the order check, writeHead(200), the connection_established frame and the
\* GET sent to Redis
StreamAccept(h, u, o) ==
  /\ conn[h].pc = "idle"
  /\ \A g \in Handles : g < h => conn[g].pc # "idle"
  /\ UNCHANGED <<orderVars, pollVars, sseConnections, locCache, locReq, locSeq, now, cacheVars, chatVars, annVars>>
  /\ IF UserType(u) # "customer"
     THEN /\ evt' = Evt("stream", 403, NoUser)
          /\ UNCHANGED <<conn, redisQ>>
     ELSE IF /\ Visible(o)
             /\ orders[o].customer = u
             /\ orders[o].status \in deliveryStatuses
             /\ orders[o].driver # NoUser
     THEN /\ conn' = [conn EXCEPT ![h].pc = "accepted", ![h].order = o,
                                  ![h].snap = locCache[o], ![h].since = locSeq]
          /\ redisQ' = redisSent("get", h)
          /\ evt' = Evt("stream", 200, NoUser)
     ELSE /\ evt' = Evt("stream", 403, NoUser)
          /\ UNCHANGED <<conn, redisQ>>

\* a registration that adds res to the order's set only when the map still
\* has one, and makes none
StreamRegisterStale(h) ==
  LET o == conn[h].order
      cur == conn[h].snap
  IN
  /\ conn[h].pc = "accepted"
  /\ redisAnswers("get", h)
  /\ redisQ' = redisAnswered("get", h)
  /\ UNCHANGED <<orderVars, pollVars, locCache, locReq, locSeq, now, cacheVars, chatVars, annVars>>
  /\ IF cur # 0 /\ conn[h].broken
     THEN /\ conn' = [conn EXCEPT ![h].pc = "ended"]
          /\ evt' = Evt("streamRegister", 500, NoUser)
          /\ UNCHANGED sseConnections
     ELSE /\ conn' = [conn EXCEPT
               ![h].pc = "open",
               ![h].timer = TRUE,
               ![h].written = IF cur # 0 THEN Append(@, cur) ELSE @]
          /\ sseConnections' =
               IF sseConnections[o].has
               THEN [sseConnections EXCEPT ![o].conns = @ \cup {h}]
               ELSE sseConnections
          /\ evt' = [Evt("streamRegister", 0, NoUser) EXCEPT
                       !.size = IF sseConnections[o].has THEN 0 ELSE 1]

\* the rest of the handler, run when get() has answered: the current location
\* is written if there is one, res is added to the map, the two 'close'
\* listeners are attached and the heartbeat interval is started. A write that
\* throws ends the handler in its catch block before any of that. evt.size
\* tells whether sseConnections.has(orderId) was false and the entry was made
StreamRegister(h) ==
  LET o == conn[h].order
      cur == conn[h].snap
  IN
  /\ conn[h].pc = "accepted"
  /\ redisAnswers("get", h)
  /\ redisQ' = redisAnswered("get", h)
  /\ UNCHANGED <<orderVars, pollVars, locCache, locReq, locSeq, now, cacheVars, chatVars, annVars>>
  /\ IF cur # 0 /\ conn[h].broken
     THEN /\ conn' = [conn EXCEPT ![h].pc = "ended"]
          /\ evt' = Evt("streamRegister", 500, NoUser)
          /\ UNCHANGED sseConnections
     ELSE /\ conn' = [conn EXCEPT
               ![h].pc = "open",
               ![h].timer = TRUE,
               ![h].written = IF cur # 0 THEN Append(@, cur) ELSE @]
          /\ sseConnections' = [sseConnections EXCEPT ![o] =
               [has |-> TRUE, conns |-> Registered(o) \cup {h}]]
          /\ evt' = [Evt("streamRegister", 0, NoUser) EXCEPT
                       !.size = IF sseConnections[o].has THEN 0 ELSE 1]

\* the client disconnects
ClientClose(h) ==
  /\ conn[h].pc \in {"accepted", "open"}
  /\ ~conn[h].closed
  /\ conn' = [conn EXCEPT ![h].closed = TRUE]
  /\ evt' = Evt("clientClose", 0, NoUser)
  /\ UNCHANGED <<orderVars, pollVars, sseConnections, locCache, locReq, locSeq, redisQ, now, cacheVars, chatVars, annVars>>

\* a close listener that drops the order's entry without looking at its size
closeListenerDropping(m, o, h) ==
  IF m[o].has THEN [m EXCEPT ![o] = NoEntrySet] ELSE m

\* what the first req.on('close') listener does to the map
closeListener(m, o, h) ==
  IF m[o].has
  THEN IF m[o].conns \ {h} = {}
       THEN [m EXCEPT ![o] = NoEntrySet]
       ELSE [m EXCEPT ![o].conns = @ \ {h}]
  ELSE m

\* req emits 'close': the listeners attached by then run (the first removes
\* res from the map, the second clears the interval); an event emitted before
\* the handler attached them is not seen by anyone. evt.size tells whether
\* connections.delete(res) found res in the set
CloseEvent(h) ==
  /\ conn[h].closed
  /\ ~conn[h].closeEmitted
  /\ evt' = [Evt("close", 0, NoUser) EXCEPT
               !.size = IF conn[h].pc = "open" /\ h \in Registered(conn[h].order)
                        THEN 1 ELSE 0]
  /\ UNCHANGED <<orderVars, pollVars, locCache, locReq, locSeq, redisQ, now, cacheVars, chatVars, annVars>>
  /\ IF conn[h].pc = "open"
     THEN /\ sseConnections' = closeListener(sseConnections, conn[h].order, h)
          /\ conn' = [conn EXCEPT ![h].closeEmitted = TRUE, ![h].timer = FALSE]
     ELSE /\ conn' = [conn EXCEPT ![h].closeEmitted = TRUE]
          /\ UNCHANGED sseConnections

\* what the heartbeat's catch block does to the map
heartbeatFailure(m, o, h) == IF m[o].has THEN [m EXCEPT ![o].conns = @ \ {h}] ELSE m

\* one run of the setInterval callback
Heartbeat(h) ==
  /\ conn[h].timer
  /\ UNCHANGED <<orderVars, pollVars, locCache, locReq, locSeq, redisQ, now, cacheVars, chatVars, annVars>>
  /\ IF conn[h].broken
     THEN /\ conn' = [conn EXCEPT ![h].timer = FALSE]
          /\ sseConnections' = heartbeatFailure(sseConnections, conn[h].order, h)
          /\ evt' = Evt("heartbeat", "failed", NoUser)
     ELSE /\ evt' = Evt("heartbeat", "written", NoUser)
          /\ UNCHANGED <<conn, sseConnections>>

\* the connection's stream fails: from now on res.write throws
HandleBreak(h) ==
  /\ conn[h].pc \in {"accepted", "open"}
  /\ ~conn[h].broken
  /\ conn' = [conn EXCEPT ![h].broken = TRUE]
  /\ evt' = Evt("break", 0, NoUser)
  /\ UNCHANGED <<orderVars, pollVars, sseConnections, locCache, locReq, locSeq, redisQ, now, cacheVars, chatVars, annVars>>

\* the key driver_location:<id> expires (5 min TTL)
LocCacheExpire(o) ==
  /\ locCache[o] # 0
  /\ locCache' = [locCache EXCEPT ![o] = 0]
  /\ evt' = Evt("expire", 0, NoUser)
  /\ UNCHANGED <<orderVars, pollVars, sseConnections, conn, locReq, locSeq, redisQ, now, cacheVars, chatVars, annVars>>

\* PUT /api/driver/location up to its await on setWithExpiry: validation, the
\* order check, the upsert into driver_locations (a table no modelled
\* handler reads) and the SETEX of driver_location:<id> sent to Redis
LocCheck(q, u, o, coordsOk) ==
  /\ locReq[q].pc = "idle"
  /\ UNCHANGED <<orderVars, pollVars, sseConnections, conn, now, cacheVars, chatVars, annVars>>
  /\ IF UserType(u) # "driver"
     THEN /\ evt' = Evt("location", 403, NoUser)
          /\ UNCHANGED <<locReq, locSeq, locCache, redisQ>>
     ELSE IF ~coordsOk
     THEN /\ evt' = Evt("location", 400, NoUser)
          /\ UNCHANGED <<locReq, locSeq, locCache, redisQ>>
     ELSE IF /\ Visible(o)
             /\ orders[o].driver = u
             /\ orders[o].status \in deliveryStatuses
     THEN /\ locSeq < MaxUpdates
          /\ locSeq' = locSeq + 1
          /\ locReq' = [locReq EXCEPT ![q] =
               [pc |-> "push", driver |-> u, order |-> o, n |-> locSeq + 1]]
          /\ locCache' = [locCache EXCEPT ![o] = locSeq + 1]
          /\ redisQ' = redisSent("set", q)
          /\ evt' = Evt("locationCheck", 0, NoUser)
     ELSE /\ evt' = Evt("location", 403, NoUser)
          /\ UNCHANGED <<locReq, locSeq, locCache, redisQ>>

\* a push loop without the try/catch: the first write that throws ends it
pushWriteAborting(c, S, n) ==
  [h \in Handles |->
     IF h \in S /\ \A g \in S : g <= h => ~c[g].broken
     THEN [c[h] EXCEPT !.written = Append(@, n)]
     ELSE c[h]]

\* connections.forEach: res.write, and connections.delete(res) when it throws
pushWrite(c, S, n) ==
  [h \in Handles |->
     IF h \in S /\ ~c[h].broken
     THEN [c[h] EXCEPT !.written = Append(@, n)]
     ELSE c[h]]

pushRemove(m, o, c) ==
  IF m[o].has
  THEN [m EXCEPT ![o].conns = {h \in @ : ~c[h].broken}]
  ELSE m

\* a push whose writes reach each handle ahead of what it was sent before
LocPushPrepending(q) ==
  LET o == locReq[q].order IN
  /\ locReq[q].pc = "push"
  /\ redisAnswers("set", q)
  /\ redisQ' = redisAnswered("set", q)
  /\ conn' = [h \in Handles |->
       IF h \in Registered(o) /\ ~conn[h].broken
       THEN [conn[h] EXCEPT !.written = <<locReq[q].n>> \o @]
       ELSE conn[h]]
  /\ sseConnections' = pushRemove(sseConnections, o, conn)
  /\ locReq' = [locReq EXCEPT ![q] = DoneLoc]
  /\ evt' = [Evt("location", 200, NoUser) EXCEPT
               !.size = Cardinality(Registered(o))]
  /\ UNCHANGED <<orderVars, pollVars, locCache, locSeq, now, cacheVars, chatVars, annVars>>

\* the rest of the handler, run when setWithExpiry has answered: the
\* synchronous push loop and the answer
LocPush(q) ==
  LET o == locReq[q].order IN
  /\ locReq[q].pc = "push"
  /\ redisAnswers("set", q)
  /\ redisQ' = redisAnswered("set", q)
  /\ conn' = pushWrite(conn, Registered(o), locReq[q].n)
  /\ sseConnections' = pushRemove(sseConnections, o, conn)
  /\ locReq' = [locReq EXCEPT ![q] = DoneLoc]
  /\ evt' = [Evt("location", 200, NoUser) EXCEPT
               !.size = Cardinality(Registered(o))]
  /\ UNCHANGED <<orderVars, pollVars, locCache, locSeq, now, cacheVars, chatVars, annVars>>

-----------------------------------------------------------------------------
(* Image upload processing and the long-polling status wait, routes/images.js *)

NoUpload == [state |-> "none", status |-> "none", progress |-> 0, owner |-> NoUser]

\* a terminal test that forgets the failed uploads
terminalCompletedOnly == {"completed"}

\* ['completed', 'failed'].includes(status)
terminalUploadStatuses == {"completed", "failed"}

\* UPDATE image_uploads SET status, progress ... WHERE id = $4: no row, no effect
updateUploadStatus(up, status, progress) ==
  IF up.state = "stored"
  THEN [up EXCEPT !.status = status, !.progress = progress]
  ELSE up

defaultTimeout == 30000
maxTimeout == 60000
pollInterval == 1000
progressThreshold == 5

\* the query parameter: <<>> when absent or not a number, <<n>> otherwise
TimeoutInputs == {<<>>, <<0>>, <<-1000>>, <<1500>>, <<5000>>, <<70000>>}

\* parseInt(req.query.timeout) || 30000
parseTimeout(q) == IF Len(q) = 0 \/ q[1] = 0 THEN defaultTimeout ELSE q[1]

Min(a, b) == IF a < b THEN a ELSE b
Max(a, b) == IF a < b THEN b ELSE a
Abs(x) == IF x < 0 THEN -x ELSE x

\* const pollTimeout = Math.min(timeout, maxTimeout)
pollTimeoutOf(q) == Min(parseTimeout(q), maxTimeout)

NoResp ==
  [kind |-> "none", code |-> 0, status |-> "none", progress |-> 0,
   completed |-> FALSE, timeout |-> FALSE, at |-> 0]

IdleWaiter ==
  [pc |-> "idle", query |-> <<>>,
   known |-> [status |-> "none", progress |-> 0], \* the row read at the start
   startTime |-> 0, pollTimeout |-> 0,
   wakeAt |-> 0,       \* when the pending setTimeout fires
   diffAt |-> -1,      \* observer: since when the row differs from known
   closed |-> FALSE,   \* the client has gone away
   resp |-> NoResp]

\* res.json of a status answer
statusResp(kind, up, completed, timeout, t) ==
  [kind |-> kind, code |-> 200, status |-> up.status, progress |-> up.progress,
   completed |-> completed, timeout |-> timeout, at |-> t]

errorResp(code, t) == [NoResp EXCEPT !.kind = "error", !.code = code, !.at = t]

\* the difference the long poll is about: another state tag, or progress
\* that moved by the threshold or more
Differs(known, up) ==
  \/ up.status # known.status
  \/ Abs(up.progress - known.progress) >= progressThreshold

\* observer: stamp the waits that are suspended when the row starts to differ
Observe(wt, up, t) ==
  [w \in Waiters |->
     IF /\ wt[w].pc \in {"wait", "final"}
        /\ wt[w].diffAt = -1
        /\ up.state = "stored"
        /\ Differs(wt[w].known, up)
     THEN [wt[w] EXCEPT !.diffAt = t]
     ELSE wt[w]]

\* POST /api/images/upload: the menu item belongs to restaurant R1
UploadImage(u) ==
  /\ upload.state = "none"
  /\ UNCHANGED <<orderVars, streamVars, waiter, now, cacheVars, chatVars, annVars>>
  /\ IF UserType(u) # "restaurant"
     THEN /\ evt' = Evt("upload", 403, NoUser)
          /\ UNCHANGED <<upload, proc>>
     ELSE IF RestaurantUser("R1") # u
     THEN /\ evt' = Evt("upload", 404, NoUser)
          /\ UNCHANGED <<upload, proc>>
     ELSE /\ upload' = [state |-> "stored", status |-> "uploading",
                        progress |-> 0, owner |-> u]
          /\ proc' = "queued"
          /\ evt' = Evt("upload", 202, NoUser)

\* status writes whose progress falls back between the second and the third
processStepsRegressing ==
  [queued |-> [status |-> "processing", progress |-> 10, next |-> "p10"],
   p10 |-> [status |-> "processing", progress |-> 60, next |-> "p30"],
   p30 |-> [status |-> "processing", progress |-> 30, next |-> "p60"],
   p60 |-> [status |-> "processing", progress |-> 80, next |-> "p80"],
   p80 |-> [status |-> "completed", progress |-> 100, next |-> "completed"]]

\* the status writes of processImageAsync, in order
processSteps ==
  [queued |-> [status |-> "processing", progress |-> 10, next |-> "p10"],
   p10 |-> [status |-> "processing", progress |-> 30, next |-> "p30"],
   p30 |-> [status |-> "processing", progress |-> 60, next |-> "p60"],
   p60 |-> [status |-> "processing", progress |-> 80, next |-> "p80"],
   p80 |-> [status |-> "completed", progress |-> 100, next |-> "completed"]]

\* a processing step that has to wait until no status wait is suspended
ProcessStepBlocked ==
  /\ \A w \in Waiters : waiter[w].pc \notin {"wait", "final"}
  /\ proc \in DOMAIN processSteps
  /\ upload' = updateUploadStatus(upload, processSteps[proc].status,
                                  processSteps[proc].progress)
  /\ proc' = processSteps[proc].next
  /\ waiter' = Observe(waiter, upload', now)
  /\ evt' = Evt("process", processSteps[proc].progress, NoUser)
  /\ UNCHANGED <<orderVars, streamVars, now, cacheVars, chatVars, annVars>>

\* processImageAsync: the next updateUploadStatus of the try block
ProcessStep ==
  /\ proc \in DOMAIN processSteps
  /\ upload' = updateUploadStatus(upload, processSteps[proc].status,
                                  processSteps[proc].progress)
  /\ proc' = processSteps[proc].next
  /\ waiter' = Observe(waiter, upload', now)
  /\ evt' = Evt("process", processSteps[proc].progress, NoUser)
  /\ UNCHANGED <<orderVars, streamVars, now, cacheVars, chatVars, annVars>>

\* processImageAsync: mkdir, sharp, writeFile or the menu_items update throws;
\* the catch block writes failed with progress 0
ProcessFail ==
  /\ proc \in {"p10", "p30", "p60", "p80"}
  /\ upload' = updateUploadStatus(upload, "failed", 0)
  /\ proc' = "failed"
  /\ waiter' = Observe(waiter, upload', now)
  /\ evt' = Evt("process", "failed", NoUser)
  /\ UNCHANGED <<orderVars, streamVars, now, cacheVars, chatVars, annVars>>

\* DELETE /api/images/:uploadId
DeleteUpload(u) ==
  /\ UNCHANGED <<orderVars, streamVars, proc, waiter, now, cacheVars, chatVars, annVars>>
  /\ IF UserType(u) # "restaurant"
     THEN /\ evt' = Evt("delete", 403, NoUser)
          /\ UNCHANGED upload
     ELSE IF upload.state = "stored" /\ upload.owner = u
     THEN /\ upload' = [upload EXCEPT !.state = "deleted"]
          /\ evt' = Evt("delete", 200, NoUser)
     ELSE /\ evt' = Evt("delete", 404, NoUser)
          /\ UNCHANGED upload

\* GET /api/images/status/:uploadId up to the call of pollForChanges
LpStart(w, u, q) ==
  /\ waiter[w].pc = "idle"
  /\ \A v \in Waiters : v < w => waiter[v].pc # "idle"
  /\ UNCHANGED <<orderVars, streamVars, upload, proc, now, cacheVars, chatVars, annVars>>
  /\ IF UserType(u) # "restaurant"
     THEN /\ evt' = Evt("status", 403, NoUser)
          /\ UNCHANGED waiter
     ELSE IF ~(upload.state = "stored" /\ upload.owner = u)
     THEN /\ evt' = Evt("status", 404, NoUser)
          /\ UNCHANGED waiter
     ELSE IF upload.status \in terminalUploadStatuses
     THEN /\ waiter' = [waiter EXCEPT ![w] =
               [IdleWaiter EXCEPT
                  !.pc = "done", !.query = q, !.startTime = now,
                  !.known = [status |-> upload.status, progress |-> upload.progress],
                  !.resp = statusResp("immediate", upload, TRUE, FALSE, now)]]
          /\ evt' = Evt("status", 200, NoUser)
     ELSE /\ waiter' = [waiter EXCEPT ![w] =
               [IdleWaiter EXCEPT
                  !.pc = "wait", !.query = q, !.startTime = now,
                  !.known = [status |-> upload.status, progress |-> upload.progress],
                  !.pollTimeout = pollTimeoutOf(q),
                  !.wakeAt = now]]
          /\ evt' = Evt("statusWait", 0, NoUser)

\* a wake condition that misses the smaller steps of the pipeline
progressChangedCoarse(known, current) ==
  Abs(current.progress - known.progress) >= 5 * progressThreshold

\* Math.abs(current.progress - upload.progress) >= 5
progressChanged(known, current) ==
  Abs(current.progress - known.progress) >= progressThreshold

\* one pass of the while loop of pollForChanges, run when its timer has fired
LpCheck(w) ==
  LET wt == waiter[w] IN
  /\ wt.pc = "wait"
  /\ now >= wt.wakeAt
  /\ UNCHANGED <<orderVars, streamVars, upload, proc, now, cacheVars, chatVars, annVars>>
  /\ IF ~(now - wt.startTime < wt.pollTimeout)
     THEN /\ waiter' = [waiter EXCEPT ![w].pc = "final"]
          /\ evt' = Evt("statusLoop", "timeout", NoUser)
     ELSE IF upload.state # "stored"
     THEN /\ waiter' = [waiter EXCEPT ![w].pc = "final"]
          /\ evt' = Evt("statusLoop", "break", NoUser)
     ELSE IF upload.status \in terminalUploadStatuses
     THEN /\ waiter' = [waiter EXCEPT ![w].pc = "done",
               ![w].resp = statusResp("change", upload, TRUE, FALSE, now)]
          /\ evt' = Evt("status", 200, NoUser)
     ELSE IF progressChanged(wt.known, upload)
     THEN /\ waiter' = [waiter EXCEPT ![w].pc = "done",
               ![w].resp = statusResp("change", upload, FALSE, FALSE, now)]
          /\ evt' = Evt("status", 200, NoUser)
     ELSE /\ waiter' = [waiter EXCEPT ![w].wakeAt = now + pollInterval]
          /\ evt' = Evt("statusLoop", "sleep", NoUser)

\* after the loop: the final read and the timeout answer; reading the fields
\* of a row that is not there throws, and the catch block answers 500
LpFinal(w) ==
  /\ waiter[w].pc = "final"
  /\ UNCHANGED <<orderVars, streamVars, upload, proc, now, cacheVars, chatVars, annVars>>
  /\ IF upload.state = "stored"
     THEN /\ waiter' = [waiter EXCEPT ![w].pc = "done",
               ![w].resp = statusResp("timeout", upload,
                              upload.status \in terminalUploadStatuses, TRUE, now)]
          /\ evt' = Evt("status", 200, NoUser)
     ELSE /\ waiter' = [waiter EXCEPT ![w].pc = "done",
               ![w].resp = errorResp(500, now)]
          /\ evt' = Evt("status", 500, NoUser)

\* the client of a suspended wait disconnects; the route attaches no 'close'
\* listener, so nothing but the flag of the socket changes
LpClientClose(w) ==
  /\ waiter[w].pc \in {"wait", "final"}
  /\ ~waiter[w].closed
  /\ waiter' = [waiter EXCEPT ![w].closed = TRUE]
  /\ evt' = Evt("statusClose", 0, NoUser)
  /\ UNCHANGED <<orderVars, streamVars, upload, proc, now, cacheVars, chatVars, annVars>>

\* time passes until the next timer is due; a handler that can run, runs first
SleepingWaiters == {w \in Waiters : waiter[w].pc = "wait"}

NextWake == CHOOSE t \in {waiter[w].wakeAt : w \in SleepingWaiters} :
              \A w \in SleepingWaiters : t <= waiter[w].wakeAt

PollTick ==
  /\ SleepingWaiters # {}
  /\ \A w \in Waiters : waiter[w].pc # "final"
  /\ \A w \in SleepingWaiters : waiter[w].wakeAt > now
  /\ now' = NextWake
  /\ evt' = Evt("tick", 0, NoUser)
  /\ UNCHANGED <<orderVars, streamVars, pollVars, cacheVars, chatVars, annVars>>

-----------------------------------------------------------------------------
(* chatHandler socket events, sockets/chatHandler.js *)

\* support_chats rows: chat 1 is handled by agent s1, chat 2 has no agent yet
InitialChats ==
  [c \in Chats |->
     IF c = 1 THEN [customer |-> "c1", agent |-> "s1", status |-> "active"]
              ELSE [customer |-> "c2", agent |-> NoUser, status |-> "active"]]

\* chat ids a client may name: the rows of the table and one that is no row
ChatInputs == 1..(MaxChats + 1)

\* a message text: pad blanks around body characters that are not blank
Text(pad, body) == [pad |-> pad, body |-> body]
maxMessageLength == 1000
MessageInputs ==
  {Text(0, 0), Text(2, 0), Text(1, 999), Text(2, 999), Text(0, 1001)}
\* message.length
Length(m) == m.pad + m.body
\* message.trim()
Trim(m) == Text(0, m.body)

IdleSend == [pc |-> "idle", chat |-> 0, sender |-> NoUser, id |-> 0, message |-> Text(0, 0)]

\* clients connect one after the other: a socket sends its first event only
\* when the sockets before it have authenticated; a socket that has
\* disconnected sends no event any more
Connected(s) ==
  /\ sock[s].connected
  /\ \A t \in Sockets : t < s => sock[t].userId # NoUser

\* SELECT ... FROM support_chats WHERE id = $1 AND customer_id = $2, or
\* ... AND (agent_id = $2 OR agent_id IS NULL)
ChatAccess(c, u) ==
  /\ c \in DOMAIN chats
  /\ \/ (UserType(u) = "customer" /\ chats[c].customer = u)
     \/ (UserType(u) = "support" /\ chats[c].agent \in {u, NoUser})

\* a join that stores the user on the socket before the chat is checked
JoinChatEager(s, tokenUser, c) ==
  /\ Connected(s)
  /\ UNCHANGED <<orders, cache, putReq, now, streamVars, pollVars, cacheVars, chatVars, annVars>>
  /\ IF tokenUser = NoUser
     THEN /\ evt' = Evt("join-support-chat", "error", NoUser)
          /\ UNCHANGED sock
     ELSE IF UserType(tokenUser) \notin {"customer", "support"} \/ ~ChatAccess(c, tokenUser)
     THEN /\ evt' = Evt("join-support-chat", "error", NoUser)
          /\ sock' = [sock EXCEPT ![s].userId = tokenUser,
                                  ![s].userType = UserType(tokenUser)]
     ELSE /\ sock' = [sock EXCEPT ![s].userId = tokenUser,
                                  ![s].userType = UserType(tokenUser),
                                  ![s].chatId = c,
                                  ![s].rooms = @ \cup {c}]
          /\ evt' = Evt("join-support-chat", "joined-chat", NoUser)

\* 'join-support-chat': token, user row and chat row are checked, then the
\* socket fields are set and the room is joined
JoinChat(s, tokenUser, c) ==
  /\ Connected(s)
  /\ UNCHANGED <<orders, cache, putReq, now, streamVars, pollVars, cacheVars, chatVars, annVars>>
  /\ IF tokenUser = NoUser
     THEN /\ evt' = Evt("join-support-chat", "error", NoUser)
          /\ UNCHANGED sock
     ELSE IF UserType(tokenUser) \notin {"customer", "support"} \/ ~ChatAccess(c, tokenUser)
     THEN /\ evt' = Evt("join-support-chat", "error", NoUser)
          /\ UNCHANGED sock
     ELSE /\ sock' = [sock EXCEPT ![s].userId = tokenUser,
                                  ![s].userType = UserType(tokenUser),
                                  ![s].chatId = c,
                                  ![s].rooms = @ \cup {c}]
          /\ evt' = Evt("join-support-chat", "joined-chat", NoUser)

\* 'leave-chat'
LeaveChat(s) ==
  /\ Connected(s)
  /\ UNCHANGED <<orders, cache, putReq, now, streamVars, pollVars, cacheVars, chatVars, annVars>>
  /\ evt' = Evt("leave-chat", "ok", NoUser)
  /\ IF sock[s].chatId # 0
     THEN sock' = [sock EXCEPT ![s].rooms = @ \ {sock[s].chatId}, ![s].chatId = 0]
     ELSE UNCHANGED sock

\* 'send-message' up to its first await: the checks and the INSERT, which
\* takes socket.chatId and socket.userId as they are now
SendMessage(s, m) ==
  /\ Connected(s)
  /\ sendReq[s].pc = "idle"
  /\ msgSeq < MaxMsgs
  /\ UNCHANGED <<orderVars, streamVars, pollVars, cacheVars, chats, inbox, takeReq,
                 xferReq, now, annVars>>
  /\ IF \/ sock[s].chatId = 0 \/ sock[s].userId = NoUser
        \/ Trim(m).body = 0
        \/ Length(m) > maxMessageLength
     THEN /\ evt' = Evt("send-message", "error", NoUser)
          /\ UNCHANGED <<sendReq, msgSeq>>
     ELSE /\ msgSeq' = msgSeq + 1
          /\ sendReq' = [sendReq EXCEPT ![s] =
               [pc |-> "insert", chat |-> sock[s].chatId, sender |-> sock[s].userId,
                id |-> msgSeq + 1, message |-> Trim(m)]]
          /\ evt' = Evt("send-message", "insert", NoUser)

\* io.to(room).emit reaches every socket of the room once
roomMembers(room) == {t \in Sockets : room \in sock[t].rooms}

\* messageData, built from the socket fields as they are after the awaits
messageData(s) ==
  [type |-> "new-message", id |-> sendReq[s].id, chatId |-> sock[s].chatId,
   senderId |-> sock[s].userId, message |-> sendReq[s].message]

\* a broadcast that leaves the sender out, as socket.to(room).emit does
SendBroadcastExcept(s) ==
  LET members == roomMembers(sock[s].chatId) \ {s}
      ack == [type |-> "message-sent", id |-> sendReq[s].id, chatId |-> 0,
              senderId |-> NoUser, message |-> Text(0, 0)]
      delivered == [t \in Sockets |->
                      IF t \in members THEN Append(inbox[t], messageData(s))
                      ELSE inbox[t]]
  IN
  /\ sendReq[s].pc = "insert"
  /\ inbox' = [delivered EXCEPT ![s] =
                 IF sock[s].connected THEN Append(@, ack) ELSE @]
  /\ sendReq' = [sendReq EXCEPT ![s] = IdleSend]
  /\ evt' = [Evt("send-message", "message-sent", NoUser) EXCEPT
               !.size = Cardinality(members)]
  /\ UNCHANGED <<orderVars, streamVars, pollVars, cacheVars, chats, msgSeq, takeReq,
                 xferReq, now, annVars>>

\* the rest of 'send-message', run when the INSERT and the UPDATE of
\* support_chats have answered: the room broadcast and the acknowledgment
\* (a packet for a socket that has disconnected is dropped)
SendBroadcast(s) ==
  LET members == roomMembers(sock[s].chatId)
      ack == [type |-> "message-sent", id |-> sendReq[s].id, chatId |-> 0,
              senderId |-> NoUser, message |-> Text(0, 0)]
      delivered == [t \in Sockets |->
                      IF t \in members THEN Append(inbox[t], messageData(s))
                      ELSE inbox[t]]
  IN
  /\ sendReq[s].pc = "insert"
  /\ inbox' = [delivered EXCEPT ![s] =
                 IF sock[s].connected THEN Append(@, ack) ELSE @]
  /\ sendReq' = [sendReq EXCEPT ![s] = IdleSend]
  /\ evt' = [Evt("send-message", "message-sent", NoUser) EXCEPT
               !.size = Cardinality(members)]
  /\ UNCHANGED <<orderVars, streamVars, pollVars, cacheVars, chats, msgSeq, takeReq,
                 xferReq, now, annVars>>

-----------------------------------------------------------------------------
(* Support chat routes, routes/support.js *)

maxConcurrentChats == 10

\* SELECT COUNT(*) FROM support_chats WHERE agent_id = $1 AND status = 'active'
activeChatsOf(u) ==
  Cardinality({c \in DOMAIN chats :
                 chats[c].agent = u /\ chats[c].status = "active"})

IdleTake == [pc |-> "idle", agent |-> NoUser, chat |-> 0]

\* POST /api/support/agent/take/:chatId up to its second query: authorize
\* and the count of the agent's active chats
TakeCount(r, u, c) ==
  /\ takeReq[r].pc = "idle"
  /\ UNCHANGED <<orderVars, streamVars, pollVars, cacheVars, annVars,
                 chats, sendReq, inbox, msgSeq, xferReq, now>>
  /\ IF UserType(u) # "support"
     THEN /\ evt' = Evt("take-chat", 403, NoUser)
          /\ UNCHANGED takeReq
     ELSE IF activeChatsOf(u) >= maxConcurrentChats
     THEN /\ evt' = Evt("take-chat", 400, NoUser)
          /\ UNCHANGED takeReq
     ELSE /\ takeReq' = [takeReq EXCEPT ![r] =
               [pc |-> "assign", agent |-> u, chat |-> c]]
          /\ evt' = Evt("take-chat-count", 0, NoUser)

\* the rest of the route: UPDATE support_chats SET agent_id = $1 WHERE
\* id = $2 AND agent_id IS NULL AND status = 'active', and the answer
TakeAssign(r) ==
  LET u == takeReq[r].agent
      c == takeReq[r].chat
  IN
  /\ takeReq[r].pc = "assign"
  /\ takeReq' = [takeReq EXCEPT ![r] = IdleTake]
  /\ UNCHANGED <<orderVars, streamVars, pollVars, cacheVars, annVars,
                 sendReq, inbox, msgSeq, xferReq, now>>
  /\ IF /\ c \in DOMAIN chats
        /\ chats[c].agent = NoUser
        /\ chats[c].status = "active"
     THEN /\ chats' = [chats EXCEPT ![c].agent = u]
          /\ evt' = Evt("take-chat", 200, u)
     ELSE /\ evt' = Evt("take-chat", 404, NoUser)
          /\ UNCHANGED chats

\* the row the UPDATE of PUT /chat/:chatId/close matches
CloseMatches(u, c) ==
  /\ c \in DOMAIN chats
  /\ \/ (UserType(u) = "support" /\ chats[c].agent = u)
     \/ (UserType(u) = "customer" /\ chats[c].customer = u)

\* PUT /api/support/chat/:chatId/close: the UPDATE, the closing message
\* when a resolution is given, and the answer
CloseChat(u, c, resolution) ==
  /\ UNCHANGED <<orderVars, streamVars, pollVars, cacheVars, annVars,
                 sendReq, inbox, takeReq, xferReq, now>>
  /\ IF UserType(u) \notin {"support", "customer"}
     THEN /\ evt' = Evt("close-chat", 403, NoUser)
          /\ UNCHANGED <<chats, msgSeq>>
     ELSE IF ~CloseMatches(u, c)
     THEN /\ evt' = Evt("close-chat", 404, NoUser)
          /\ UNCHANGED <<chats, msgSeq>>
     ELSE /\ resolution => msgSeq < MaxMsgs
          /\ chats' = [chats EXCEPT ![c].status =
                         IF UserType(u) = "support" THEN "resolved" ELSE "closed"]
          /\ msgSeq' = IF resolution THEN msgSeq + 1 ELSE msgSeq
          /\ evt' = Evt("close-chat", 200, u)

-----------------------------------------------------------------------------
(* chatHandler 'transfer-chat'. The handler checks the socket's fields when *)
(* the event arrives, then awaits the SELECT of the target agent, the count *)
(* of the target's active chats (the same limit of 10), the UPDATE and the  *)
(* INSERT of the transfer message; socket.chatId is read again at each use. *)

IdleXfer == [pc |-> "idle", to |-> NoUser]

\* the check of the socket fields and the SELECT of the target agent among
\* the active support users
TransferStart(s, to) ==
  /\ Connected(s)
  /\ xferReq[s].pc = "idle"
  /\ UNCHANGED <<orderVars, streamVars, pollVars, cacheVars, annVars,
                 chats, sendReq, inbox, msgSeq, takeReq, now>>
  /\ IF sock[s].userType # "support" \/ sock[s].chatId = 0
     THEN /\ evt' = Evt("transfer-chat", "error", NoUser)
          /\ UNCHANGED xferReq
     ELSE IF UserType(to) # "support"
     THEN /\ evt' = Evt("transfer-chat", "error", NoUser)
          /\ UNCHANGED xferReq
     ELSE /\ xferReq' = [xferReq EXCEPT ![s] = [pc |-> "count", to |-> to]]
          /\ evt' = Evt("transfer-chat", "target", NoUser)

\* SELECT COUNT(*) ... WHERE agent_id = $1 AND status = 'active' for the target
TransferCount(s) ==
  /\ xferReq[s].pc = "count"
  /\ UNCHANGED <<orderVars, streamVars, pollVars, cacheVars, annVars,
                 chats, sendReq, inbox, msgSeq, takeReq, now>>
  /\ IF activeChatsOf(xferReq[s].to) >= maxConcurrentChats
     THEN /\ xferReq' = [xferReq EXCEPT ![s] = IdleXfer]
          /\ evt' = Evt("transfer-chat", "error", NoUser)
     ELSE /\ xferReq' = [xferReq EXCEPT ![s].pc = "update"]
          /\ evt' = Evt("transfer-chat", "count", NoUser)

\* UPDATE support_chats SET agent_id = $1 WHERE id = $2 with socket.chatId as
\* it is now, the transfer message, the room event and the acknowledgment
TransferUpdate(s) ==
  LET c == sock[s].chatId
      note == [type |-> "chat-transferred", id |-> 0, chatId |-> c,
               senderId |-> sock[s].userId, message |-> Text(0, 0)]
  IN
  /\ xferReq[s].pc = "update"
  /\ msgSeq < MaxMsgs
  /\ xferReq' = [xferReq EXCEPT ![s] = IdleXfer]
  /\ UNCHANGED <<orderVars, streamVars, pollVars, cacheVars, annVars,
                 sendReq, takeReq, now>>
  /\ IF c \in DOMAIN chats
     THEN /\ chats' = [chats EXCEPT ![c].agent = xferReq[s].to]
          /\ msgSeq' = msgSeq + 1
          /\ inbox' = [t \in Sockets |->
               IF c \in sock[t].rooms THEN Append(inbox[t], note) ELSE inbox[t]]
          /\ evt' = Evt("transfer-chat", "transfer-successful", sock[s].userId)
     ELSE /\ evt' = Evt("transfer-chat", "error", NoUser)
          /\ UNCHANGED <<chats, msgSeq, inbox>>

-----------------------------------------------------------------------------
(* Socket disconnection. socket.io takes a closing socket out of all its    *)
(* rooms and then runs the 'disconnect' listeners of the handlers; the     *)
(* listeners themselves leave no room and clear no field of the socket.    *)

\* a disconnect after which the socket stays in its rooms
DisconnectKeepingRooms(s) ==
  /\ sock[s].connected
  /\ sock' = [sock EXCEPT ![s].connected = FALSE]
  /\ evt' = [Evt("disconnect", "ok", NoUser) EXCEPT
               !.size = IF sock[s].chatId # 0
                        THEN Cardinality(roomMembers(sock[s].chatId) \ {s})
                        ELSE 0]
  /\ UNCHANGED <<orders, cache, putReq, now, streamVars, pollVars, cacheVars,
                 chatVars, annVars>>

\* 'disconnect': the chat listener tells the others of socket.chatId's room
\* (evt.size counts them), the other listeners only log
Disconnect(s) ==
  /\ sock[s].connected
  /\ sock' = [sock EXCEPT ![s].connected = FALSE, ![s].rooms = {},
                          ![s].inRoom = FALSE, ![s].annRooms = {}]
  /\ evt' = [Evt("disconnect", "ok", NoUser) EXCEPT
               !.size = IF sock[s].chatId # 0
                        THEN Cardinality(roomMembers(sock[s].chatId) \ {s})
                        ELSE 0]
  /\ UNCHANGED <<orders, cache, putReq, now, streamVars, pollVars, cacheVars,
                 chatVars, annVars>>

-----------------------------------------------------------------------------
(* Announcements: POST /api/announcements publishes to Redis channels, and *)
(* every server process relays what its subscriber receives to the         *)
(* sockets of the matching socket.io room (routes/announcements.js,        *)
(* sockets/announcementHandler.js).                                        *)

\* the process a socket is connected to
procOf(s) == ((s - 1) % MaxProcs) + 1

\* a room or channel name `announcements-<suffix>` is modelled by its suffix
validUserTypes == {"customer", "restaurant", "driver", "support"}
validAudiences == {"all", "customers", "restaurants", "drivers"}
\* the userTypes array of initializeAnnouncementSubscribers
subscriberChannels == {"all", "customers", "restaurants", "drivers"}

IdleAnn == [pc |-> "idle", id |-> 0, left |-> <<>>]

\* the channels broadcastAnnouncement publishes to, in its order
publishList(audience) ==
  IF audience = "all" THEN <<"all", "customers", "restaurants", "drivers">>
  ELSE <<audience>>

\* 'subscribe-announcements': the user type is the one the client names
SubscribeAnnouncements(s, tokenUser, userType) ==
  /\ sock[s].connected
  /\ UNCHANGED <<orders, cache, putReq, now, streamVars, pollVars, cacheVars,
                 chatVars, annVars>>
  /\ IF tokenUser = NoUser \/ userType \notin validUserTypes
     THEN /\ evt' = Evt("subscribe-announcements", "error", NoUser)
          /\ UNCHANGED sock
     ELSE /\ sock' = [sock EXCEPT ![s].annRooms = @ \cup {userType, "all"},
                                  ![s].userType = userType,
                                  ![s].userId = tokenUser]
          /\ evt' = Evt("subscribe-announcements", "subscribed-announcements", NoUser)

\* 'unsubscribe-announcements'
UnsubscribeAnnouncements(s) ==
  /\ sock[s].connected
  /\ UNCHANGED <<orders, cache, putReq, now, streamVars, pollVars, cacheVars,
                 chatVars, annVars>>
  /\ IF sock[s].userType # "none"
     THEN /\ sock' = [sock EXCEPT ![s].annRooms = @ \ {sock[s].userType, "all"}]
          /\ evt' = Evt("unsubscribe-announcements", "unsubscribed-announcements", NoUser)
     ELSE /\ evt' = Evt("unsubscribe-announcements", "ignored", NoUser)
          /\ UNCHANGED sock

\* POST /api/announcements up to the INSERT: authorization, validation, the
\* row; body "ok" stands for a request with title, message and a valid type
CreateAnnouncement(p, u, body, audience, later) ==
  /\ annReq[p].pc = "idle"
  /\ UNCHANGED <<orderVars, streamVars, pollVars, cacheVars, chatVars, now,
                 pubsub, subs, boot, annInbox>>
  /\ IF UserType(u) # "support"
     THEN /\ evt' = Evt("create-announcement", 403, NoUser)
          /\ UNCHANGED <<announcements, annReq>>
     ELSE IF body # "ok" \/ audience \notin validAudiences \cup {"none"}
     THEN /\ evt' = Evt("create-announcement", 400, NoUser)
          /\ UNCHANGED <<announcements, annReq>>
     ELSE LET target == IF audience = "none" THEN "all" ELSE audience IN
          /\ Len(announcements) < MaxAnns
          /\ announcements' = Append(announcements, [audience |-> target])
          /\ annReq' = [annReq EXCEPT ![p] =
               [pc |-> "broadcast", id |-> Len(announcements) + 1,
                left |-> IF later THEN <<>> ELSE publishList(target)]]
          /\ evt' = Evt("create-announcement", "insert", NoUser)

\* PUBLISH: Redis hands the message to every connection subscribed to the
\* channel, in the order of the publishes
publish(q, channel, id) ==
  [p \in Procs |->
     IF channel \in subs[p] THEN Append(q[p], [channel |-> channel, id |-> id])
     ELSE q[p]]

\* one `await publish(...)` of broadcastAnnouncement; a failed publish is
\* thrown on to the route's catch block, which answers 500
PublishAnnouncement(p) ==
  /\ annReq[p].pc = "broadcast"
  /\ annReq[p].left # <<>>
  /\ UNCHANGED <<orderVars, streamVars, pollVars, cacheVars, chatVars, now,
                 announcements, subs, boot, annInbox>>
  /\ IF redisUp
     THEN /\ pubsub' = publish(pubsub, Head(annReq[p].left), annReq[p].id)
          /\ annReq' = [annReq EXCEPT ![p].left = Tail(@)]
          /\ evt' = Evt("create-announcement", "publish", NoUser)
     ELSE /\ annReq' = [annReq EXCEPT ![p] = IdleAnn]
          /\ evt' = [Evt("create-announcement", 500, NoUser) EXCEPT
                       !.size = annReq[p].id]
          /\ UNCHANGED pubsub

\* the answer of POST /api/announcements once the broadcast has returned
AnswerAnnouncement(p) ==
  /\ annReq[p].pc = "broadcast"
  /\ annReq[p].left = <<>>
  /\ annReq' = [annReq EXCEPT ![p] = IdleAnn]
  /\ evt' = [Evt("create-announcement", 201, NoUser) EXCEPT !.size = annReq[p].id]
  /\ UNCHANGED <<orderVars, streamVars, pollVars, cacheVars, chatVars, now,
                 announcements, pubsub, subs, boot, annInbox>>

\* a room that spans the processes, as with a shared socket.io adapter
announcementRoomAllProcs(p, room) ==
  {t \in Sockets : room \in sock[t].annRooms}

\* io.to(`announcements-${userType}`).emit on process p
announcementRoom(p, room) ==
  {t \in Sockets : procOf(t) = p /\ room \in sock[t].annRooms}

\* the subscriber callback of a process for the next message of its Redis
\* connection: the room it emits to carries the channel's name
RelayAnnouncement(p) ==
  /\ pubsub[p] # <<>>
  /\ LET m == Head(pubsub[p])
         members == announcementRoom(p, m.channel)
     IN /\ annInbox' = [t \in Sockets |->
             IF t \in members
             THEN Append(annInbox[t], [id |-> m.id, room |-> m.channel])
             ELSE annInbox[t]]
        /\ evt' = [Evt("new-announcement", m.channel, NoUser) EXCEPT
                     !.size = Cardinality(members)]
  /\ pubsub' = [pubsub EXCEPT ![p] = Tail(@)]
  /\ UNCHANGED <<orderVars, streamVars, pollVars, cacheVars, chatVars, now,
                 announcements, annReq, subs, boot>>

-----------------------------------------------------------------------------
(* startServer, app.js *)

\* await connectDB(): a failed connection is thrown to the catch block,
\* which ends the process
ConnectDB(p, ok) ==
  /\ boot[p] = "start"
  /\ boot' = [boot EXCEPT ![p] = IF ok THEN "db" ELSE "exit1"]
  /\ evt' = Evt("startServer", IF ok THEN "connectDB" ELSE "exit", NoUser)
  /\ UNCHANGED <<orderVars, streamVars, pollVars, cacheVars, chatVars, now,
                 announcements, annReq, pubsub, subs, annInbox>>

\* await connectRedis()
ConnectRedis(p) ==
  /\ boot[p] = "db"
  /\ boot' = [boot EXCEPT ![p] = IF redisUp THEN "redis" ELSE "exit1"]
  /\ evt' = Evt("startServer", IF redisUp THEN "connectRedis" ELSE "exit", NoUser)
  /\ UNCHANGED <<orderVars, streamVars, pollVars, cacheVars, chatVars, now,
                 announcements, annReq, pubsub, subs, annInbox>>

\* the rest of startServer. app.js binds the module object of
\* sockets/announcementHandler to the name announcementHandler and binds no
\* name initializeAnnouncementSubscribers: the call throws a ReferenceError
\* inside the try block, the catch block logs it and calls process.exit(1);
\* no channel is subscribed and server.listen is not reached
StartSubscribers(p) ==
  /\ boot[p] = "redis"
  /\ boot' = [boot EXCEPT ![p] = "exit1"]
  /\ evt' = Evt("startServer", "ReferenceError", NoUser)
  /\ UNCHANGED <<orderVars, streamVars, pollVars, cacheVars, chatVars, now,
                 announcements, annReq, pubsub, subs, annInbox>>

\* process.on('SIGTERM'): server.close, whose callback ends the process
\* with code 0
Sigterm(p) ==
  /\ boot[p] \notin {"exit0", "exit1"}
  /\ boot' = [boot EXCEPT ![p] = "exit0"]
  /\ evt' = Evt("SIGTERM", "exit", NoUser)
  /\ UNCHANGED <<orderVars, streamVars, pollVars, cacheVars, chatVars, now,
                 announcements, annReq, pubsub, subs, annInbox>>

-----------------------------------------------------------------------------
InitOrders ==
  /\ orders = [o \in OrderIds |-> NoOrder]
  /\ cache = [o \in OrderIds |-> NoEntry]
  /\ putReq = [r \in PutReqs |-> IdlePut]
  /\ sock = [s \in Sockets |-> NoSock]
  /\ sseConnections = [o \in OrderIds |-> NoEntrySet]
  /\ conn = [h \in Handles |-> IdleConn]
  /\ locCache = [o \in OrderIds |-> 0]
  /\ locReq = [q \in LocReqs |-> IdleLoc]
  /\ locSeq = 0
  /\ redisQ = <<>>
  /\ upload = NoUpload
  /\ proc = "none"
  /\ waiter = [w \in Waiters |-> IdleWaiter]
  /\ getReq = [g \in GetReqs |-> IdleGet]
  /\ redisUp = TRUE
  /\ chats = InitialChats
  /\ sendReq = [s \in Sockets |-> IdleSend]
  /\ inbox = [s \in Sockets |-> <<>>]
  /\ takeReq = [r \in TakeReqs |-> IdleTake]
  /\ xferReq = [s \in Sockets |-> IdleXfer]
  /\ msgSeq = 0
  /\ announcements = <<>>
  /\ annReq = [p \in Procs |-> IdleAnn]
  /\ pubsub = [p \in Procs |-> <<>>]
  /\ subs = [p \in Procs |-> subscriberChannels]
  /\ boot = [p \in Procs |-> "listening"]
  /\ annInbox = [s \in Sockets |-> <<>>]
  /\ evt = Evt("init", 0, NoUser)
  /\ now = 0

NextOrders ==
  \/ \E u \in Customers, o \in OrderIds, R \in Restaurants : CreateOrderTx(u, o, R)
  \/ \E o \in OrderIds : CreateOrderCommit(o)
  \/ \E r \in PutReqs, u \in Users, o \in OrderIds, st \in StatusInputs :
       PutStatusUpdate(r, u, o, st)
  \/ \E r \in PutReqs : PutStatusGet(r)
  \/ \E r \in PutReqs : PutStatusSet(r)
  \/ \E u \in Users, o \in OrderIds : AcceptOrder(u, o)
  \/ \E u \in Users, o \in OrderIds : ReadyOrder(u, o)
  \/ \E u \in Users, o \in OrderIds, reason \in BOOLEAN : CancelOrder(u, o, reason)
  \/ \E u \in Users, o \in OrderIds : AssignDriver(u, o)
  \/ \E s \in SharedSockets, t \in Users \cup {NoUser}, R \in Restaurants :
       JoinRestaurant(s, t, R)
  \/ \E s \in SharedSockets : LeaveRestaurant(s)
  \/ \E s \in SharedSockets, o \in OrderIds, st \in StatusInputs :
       UpdateOrderStatus(s, o, st)

SpecOrders == InitOrders /\ [][NextOrders]_vars

\* an order on its way: committed, picked up by its driver
InitStream ==
  /\ orders = [o \in OrderIds |->
       [state |-> "committed", status |-> "picked_up", customer |-> "c1",
        restaurant |-> "R1", driver |-> "d1"]]
  /\ cache = [o \in OrderIds |-> NoEntry]
  /\ putReq = [r \in PutReqs |-> IdlePut]
  /\ sock = [s \in Sockets |-> NoSock]
  /\ sseConnections = [o \in OrderIds |-> NoEntrySet]
  /\ conn = [h \in Handles |-> IdleConn]
  /\ locCache = [o \in OrderIds |-> 0]
  /\ locReq = [q \in LocReqs |-> IdleLoc]
  /\ locSeq = 0
  /\ redisQ = <<>>
  /\ upload = NoUpload
  /\ proc = "none"
  /\ waiter = [w \in Waiters |-> IdleWaiter]
  /\ getReq = [g \in GetReqs |-> IdleGet]
  /\ redisUp = TRUE
  /\ chats = InitialChats
  /\ sendReq = [s \in Sockets |-> IdleSend]
  /\ inbox = [s \in Sockets |-> <<>>]
  /\ takeReq = [r \in TakeReqs |-> IdleTake]
  /\ xferReq = [s \in Sockets |-> IdleXfer]
  /\ msgSeq = 0
  /\ announcements = <<>>
  /\ annReq = [p \in Procs |-> IdleAnn]
  /\ pubsub = [p \in Procs |-> <<>>]
  /\ subs = [p \in Procs |-> subscriberChannels]
  /\ boot = [p \in Procs |-> "listening"]
  /\ annInbox = [s \in Sockets |-> <<>>]
  /\ evt = Evt("init", 0, NoUser)
  /\ now = 0

NextStream ==
  \/ \E h \in Handles, u \in {"c1", "c2", "d1"}, o \in OrderIds : StreamAccept(h, u, o)
  \/ \E h \in Handles : StreamRegister(h)
  \/ \E h \in Handles : ClientClose(h)
  \/ \E h \in Handles : CloseEvent(h)
  \/ \E h \in Handles : Heartbeat(h)
  \/ \E h \in Handles : HandleBreak(h)
  \/ \E o \in OrderIds : LocCacheExpire(o)
  \/ \E q \in StreamLocReqs, u \in {"d1", "d2", "c1"}, o \in OrderIds, ok \in BOOLEAN :
       LocCheck(q, u, o, ok)
  \/ \E q \in StreamLocReqs : LocPush(q)

SpecStream == InitStream /\ [][NextStream]_vars

InitPoll == InitOrders

NextPoll ==
  \/ \E u \in {"r1", "r2", "c1"} : UploadImage(u)
  \/ ProcessStep
  \/ ProcessFail
  \/ \E u \in {"r1", "r2", "c1"} : DeleteUpload(u)
  \/ \E w \in Waiters, u \in {"r1", "r2", "c1"}, q \in TimeoutInputs : LpStart(w, u, q)
  \/ \E w \in Waiters : LpCheck(w)
  \/ \E w \in Waiters : LpFinal(w)
  \/ \E w \in Waiters : LpClientClose(w)
  \/ PollTick

SpecPoll == InitPoll /\ [][NextPoll]_vars

InitCache == InitOrders

NextCache ==
  \/ \E u \in {"c1"}, o \in OrderIds, R \in {"R1"} : CreateOrderTx(u, o, R)
  \/ \E o \in OrderIds : CreateOrderCommit(o)
  \/ \E r \in PutReqs, u \in {"r1", "r2", "d1"}, o \in OrderIds,
        st \in {"preparing", "ready", "picked_up"} : PutStatusUpdate(r, u, o, st)
  \/ \E r \in PutReqs : PutStatusGet(r)
  \/ \E r \in PutReqs : PutStatusSet(r)
  \/ \E g \in GetReqs, u \in {"c1", "c2", "r1", "r2", "d1"}, o \in OrderIds :
       GetStatusCache(g, u, o)
  \/ \E g \in GetReqs : GetStatusQuery(g)
  \/ \E g \in GetReqs : GetStatusWrite(g)
  \/ RedisFail
  \/ RedisRecover
  \/ \E d \in {TickMs, CacheTtlMs} : Tick(d)

SpecCache == InitCache /\ [][NextCache]_vars

\* the order on its way is there, and so are the two support chats
InitChat == InitStream

NextChat ==
  \/ \E s \in Sockets, t \in {NoUser, "c1", "s1", "r1"}, c \in ChatInputs :
       JoinChat(s, t, c)
  \/ \E s \in Sockets : LeaveChat(s)
  \/ \E s \in Sockets, m \in MessageInputs : SendMessage(s, m)
  \/ \E s \in Sockets : SendBroadcast(s)

SpecChat == InitChat /\ [][NextChat]_vars

InitJoin == InitStream

\* the requests that open a stream or join a room, on the same socket
NextJoin ==
  \/ \E s \in SharedSockets, t \in {NoUser, "c1", "s1", "r1"}, c \in ChatInputs :
       JoinChat(s, t, c)
  \/ \E s \in SharedSockets : LeaveChat(s)
  \/ \E s \in SharedSockets, t \in {NoUser, "r1", "c1"}, R \in Restaurants :
       JoinRestaurant(s, t, R)
  \/ \E s \in SharedSockets : LeaveRestaurant(s)
  \/ \E h \in Handles, u \in {"c1", "c2", "d1"}, o \in OrderIds : StreamAccept(h, u, o)
  \/ \E h \in Handles : StreamRegister(h)

SpecJoin == InitJoin /\ [][NextJoin]_vars

\* the processes are started: nothing is connected or subscribed yet
InitStart ==
  /\ orders = [o \in OrderIds |-> NoOrder]
  /\ cache = [o \in OrderIds |-> NoEntry]
  /\ putReq = [r \in PutReqs |-> IdlePut]
  /\ sock = [s \in Sockets |-> NoSock]
  /\ sseConnections = [o \in OrderIds |-> NoEntrySet]
  /\ conn = [h \in Handles |-> IdleConn]
  /\ locCache = [o \in OrderIds |-> 0]
  /\ locReq = [q \in LocReqs |-> IdleLoc]
  /\ locSeq = 0
  /\ redisQ = <<>>
  /\ upload = NoUpload
  /\ proc = "none"
  /\ waiter = [w \in Waiters |-> IdleWaiter]
  /\ getReq = [g \in GetReqs |-> IdleGet]
  /\ redisUp = TRUE
  /\ chats = InitialChats
  /\ sendReq = [s \in Sockets |-> IdleSend]
  /\ inbox = [s \in Sockets |-> <<>>]
  /\ takeReq = [r \in TakeReqs |-> IdleTake]
  /\ xferReq = [s \in Sockets |-> IdleXfer]
  /\ msgSeq = 0
  /\ announcements = <<>>
  /\ annReq = [p \in Procs |-> IdleAnn]
  /\ pubsub = [p \in Procs |-> <<>>]
  /\ subs = [p \in Procs |-> {}]
  /\ boot = [p \in Procs |-> "start"]
  /\ annInbox = [s \in Sockets |-> <<>>]
  /\ evt = Evt("init", 0, NoUser)
  /\ now = 0

NextStart ==
  \/ \E p \in Procs, ok \in BOOLEAN : ConnectDB(p, ok)
  \/ \E p \in Procs : ConnectRedis(p)
  \/ \E p \in Procs : StartSubscribers(p)
  \/ \E p \in Procs : Sigterm(p)
  \/ RedisFail
  \/ RedisRecover

SpecStart == InitStart /\ [][NextStart]_vars

InitAnn == InitStream

\* announcements are created on either process while sockets of both
\* processes subscribe, unsubscribe and disconnect and Redis comes and goes
\* the requests made: the accepted ones, and one for each way of rejection
SubscribeInputs ==
  {<<"c1", "customer">>, <<"c1", "driver">>, <<"c1", "customers">>,
   <<NoUser, "customer">>}
AnnouncementInputs ==
  {<<"s1", "ok", a, later>> : a \in {"all", "customers", "none"}, later \in BOOLEAN}
    \cup {<<"s1", "ok", "everyone", FALSE>>, <<"s1", "noTitle", "all", FALSE>>,
          <<"c1", "ok", "all", FALSE>>}

NextAnn ==
  \/ \E s \in RoomSockets, r \in SubscribeInputs :
       SubscribeAnnouncements(s, r[1], r[2])
  \/ \E s \in RoomSockets : UnsubscribeAnnouncements(s)
  \/ \E s \in SharedSockets : Disconnect(s)
  \/ \E p \in Procs, r \in AnnouncementInputs :
       CreateAnnouncement(p, r[1], r[2], r[3], r[4])
  \/ \E p \in Procs : PublishAnnouncement(p)
  \/ \E p \in Procs : AnswerAnnouncement(p)
  \/ \E p \in Procs : RelayAnnouncement(p)
  \/ RedisFail
  \/ RedisRecover

SpecAnn == InitAnn /\ [][NextAnn]_vars

InitLeave == InitStream

\* streams are opened, break and are closed while a socket joins and leaves
\* its rooms
NextLeave ==
  \/ \E h \in LeaveHandles, o \in OrderIds : StreamAccept(h, "c1", o)
  \/ \E h \in LeaveHandles : StreamRegister(h)
  \/ \E h \in LeaveHandles : ClientClose(h)
  \/ \E h \in LeaveHandles : CloseEvent(h)
  \/ \E h \in LeaveHandles : Heartbeat(h)
  \/ \E h \in LeaveHandles : HandleBreak(h)
  \/ \E s \in SharedSockets, c \in Chats : JoinChat(s, "c1", c)
  \/ \E s \in SharedSockets : LeaveChat(s)
  \/ \E s \in SharedSockets : JoinRestaurant(s, "r1", "R1")
  \/ \E s \in SharedSockets : LeaveRestaurant(s)
  \/ \E s \in SharedSockets, ut \in {"customer", "driver"} :
       SubscribeAnnouncements(s, "c1", ut)
  \/ \E s \in SharedSockets : UnsubscribeAnnouncements(s)

SpecLeave == InitLeave /\ [][NextLeave]_vars

InitSupport == InitStream

\* customers and agents take and close the support chats while sockets
\* join them
NextSupport ==
  \/ \E r \in TakeReqs, u \in Users, c \in ChatInputs : TakeCount(r, u, c)
  \/ \E r \in TakeReqs : TakeAssign(r)
  \/ \E u \in Users, c \in ChatInputs, r \in BOOLEAN : CloseChat(u, c, r)
  \/ \E s \in SharedSockets, t \in {NoUser, "c1", "s1"}, c \in ChatInputs :
       JoinChat(s, t, c)
  \/ \E s \in SharedSockets : LeaveChat(s)

SpecSupport == InitSupport /\ [][NextSupport]_vars

\* the rows of an agent one chat below the limit, and two chats in the queue
AgentChats == 1..(maxConcurrentChats + 1)
AgentInitialChats ==
  [c \in AgentChats |->
     [customer |-> "c1",
      agent |-> IF c < maxConcurrentChats THEN "s1" ELSE NoUser,
      status |-> "active"]]
QueuedChats == {c \in AgentChats : AgentInitialChats[c].agent = NoUser}

\* orders as in the stream specification; agent s1 holds nine active chats
InitAgents ==
  /\ orders = [o \in OrderIds |->
       [state |-> "committed", status |-> "picked_up", customer |-> "c1",
        restaurant |-> "R1", driver |-> "d1"]]
  /\ cache = [o \in OrderIds |-> NoEntry]
  /\ putReq = [r \in PutReqs |-> IdlePut]
  /\ sock = [s \in Sockets |-> NoSock]
  /\ sseConnections = [o \in OrderIds |-> NoEntrySet]
  /\ conn = [h \in Handles |-> IdleConn]
  /\ locCache = [o \in OrderIds |-> 0]
  /\ locReq = [q \in LocReqs |-> IdleLoc]
  /\ locSeq = 0
  /\ redisQ = <<>>
  /\ upload = NoUpload
  /\ proc = "none"
  /\ waiter = [w \in Waiters |-> IdleWaiter]
  /\ getReq = [g \in GetReqs |-> IdleGet]
  /\ redisUp = TRUE
  /\ chats = AgentInitialChats
  /\ sendReq = [s \in Sockets |-> IdleSend]
  /\ inbox = [s \in Sockets |-> <<>>]
  /\ takeReq = [r \in TakeReqs |-> IdleTake]
  /\ xferReq = [s \in Sockets |-> IdleXfer]
  /\ msgSeq = 0
  /\ announcements = <<>>
  /\ annReq = [p \in Procs |-> IdleAnn]
  /\ pubsub = [p \in Procs |-> <<>>]
  /\ subs = [p \in Procs |-> subscriberChannels]
  /\ boot = [p \in Procs |-> "listening"]
  /\ annInbox = [s \in Sockets |-> <<>>]
  /\ evt = Evt("init", 0, NoUser)
  /\ now = 0

\* agent s1 takes the queued chats in concurrent requests, joins them on a
\* socket and transfers the joined chat to an agent, and closes a chat
NextAgents ==
  \/ \E r \in TakeReqs, c \in QueuedChats : TakeCount(r, "s1", c)
  \/ \E r \in TakeReqs : TakeAssign(r)
  \/ \E s \in SharedSockets, c \in QueuedChats : JoinChat(s, "s1", c)
  \/ \E s \in SharedSockets : LeaveChat(s)
  \/ \E s \in SharedSockets, to \in {"s1", "c1"} : TransferStart(s, to)
  \/ \E s \in SharedSockets : TransferCount(s)
  \/ \E s \in SharedSockets : TransferUpdate(s)
  \/ \E c \in QueuedChats : CloseChat("s1", c, FALSE)

SpecAgents == InitAgents /\ [][NextAgents]_vars

InitSession == InitStream

\* the user each socket's client holds a token of: a customer on the first
\* socket, the support agent on the others
SessionToken(s) == IF \A t \in RoomSockets : s <= t THEN "c2" ELSE "s1"

\* every socket sends the chat, announcement and restaurant events in any
\* order, always with its own user's token
NextSession ==
  \/ \E s \in RoomSockets, c \in ChatInputs : JoinChat(s, SessionToken(s), c)
  \/ \E s \in RoomSockets : LeaveChat(s)
  \/ \E s \in RoomSockets : SendMessage(s, Text(1, 999))
  \/ \E s \in RoomSockets : SendBroadcast(s)
  \/ \E s \in RoomSockets, ut \in {"customer", "support"} :
       SubscribeAnnouncements(s, SessionToken(s), ut)
  \/ \E s \in RoomSockets : JoinRestaurant(s, SessionToken(s), "R1")
  \/ \E s \in RoomSockets, to \in SupportUsers : TransferStart(s, to)
  \/ \E s \in RoomSockets : TransferCount(s)
  \/ \E s \in RoomSockets : TransferUpdate(s)

SpecSession == InitSession /\ [][NextSession]_vars

InitRooms == InitStream

\* sockets of two processes join and leave rooms and disconnect while chat
\* messages and announcements are broadcast
NextRooms ==
  \/ \E s \in RoomSockets, t \in {"c1", "s1"} : JoinChat(s, t, 1)
  \/ \E s \in RoomSockets : SendMessage(s, Text(1, 999))
  \/ \E s \in RoomSockets : SendBroadcast(s)
  \/ \E s \in SharedSockets : JoinRestaurant(s, "r1", "R1")
  \/ \E s \in RoomSockets, ut \in {"customer", "customers"} :
       SubscribeAnnouncements(s, "c1", ut)
  \/ \E s \in SharedSockets : Disconnect(s)
  \/ CreateAnnouncement(1, "s1", "ok", "all", FALSE)
  \/ \E p \in Procs : PublishAnnouncement(p)
  \/ \E p \in Procs : AnswerAnnouncement(p)
  \/ \E p \in Procs : RelayAnnouncement(p)

SpecRooms == InitRooms /\ [][NextRooms]_vars

-----------------------------------------------------------------------------
(* Claims about order status updates *)

\* the order lifecycle of the specification: the chain
\* confirmed -> preparing -> ready -> picked_up -> delivered, and cancelled
\* from a state that is neither terminal nor picked_up
LegalStep(from, to) ==
  \/ <<from, to>> \in {<<"confirmed", "preparing">>, <<"preparing", "ready">>,
                       <<"ready", "picked_up">>, <<"picked_up", "delivered">>}
  \/ (to = "cancelled" /\ from \in cancellableStatuses)

RestErrorCodes == {400, 403, 404}

\* C1: a status update that is no legal step of the lifecycle is rejected with
\* an error and leaves the stored status and the cached snapshot unchanged, on
\* the REST status update and on the socket update-order-status event.
C1_IllegalStepRejected ==
  [][/\ \A r \in PutReqs, u \in Users, o \in OrderIds, st \in StatusInputs :
          (PutStatusUpdate(r, u, o, st) /\ ~LegalStep(orders[o].status, st))
            => (evt'.code \in RestErrorCodes /\ orders' = orders /\ cache' = cache)
     /\ \A s \in Sockets, o \in OrderIds, st \in StatusInputs :
          (UpdateOrderStatus(s, o, st) /\ ~LegalStep(orders[o].status, st))
            => (evt'.code = "error" /\ orders' = orders /\ cache' = cache)]_vars

TerminalOrderStatuses == {"delivered", "cancelled"}

\* C2: terminal states are absorbing: once an order is delivered or cancelled
\* no operation changes its status again.
C2_TerminalAbsorbing ==
  [][\A o \in OrderIds :
       orders[o].status \in TerminalOrderStatuses
         => orders'[o].status = orders[o].status]_vars

\* a step that changed the status or the driver of an existing order through
\* a status request (not through the assign route)
StatusRequestChanged(o) ==
  /\ Visible(o)
  /\ evt'.op # "assign"
  /\ (orders'[o].status # orders[o].status \/ orders'[o].driver # orders[o].driver)

\* C3 as stated: preparing/ready are set only by the user of the order's
\* restaurant, picked_up/delivered only by the driver assigned to the order;
\* a status request by anyone else changes neither status nor driver.
C3_OnlyOwnerOrAssignedDriver ==
  [][\A o \in OrderIds : StatusRequestChanged(o) =>
       /\ orders'[o].status \in restaurantStatuses
            => (evt'.writer = RestaurantUser(orders[o].restaurant)
                /\ orders'[o].driver = orders[o].driver)
       /\ orders'[o].status \in driverStatuses
            => (evt'.writer = orders[o].driver
                /\ orders'[o].driver = orders[o].driver)]_vars

\* C3 amended: preparing/ready are set only by the user of the order's
\* restaurant; picked_up/delivered only by a driver who is the order's driver
\* or, while the order has no driver, by any driver, who becomes its driver
\* by that update; a status request by anyone else changes neither status nor
\* driver.
C3_OnlyOwnerOrTakingDriver ==
  [][\A o \in OrderIds : StatusRequestChanged(o) =>
       /\ orders'[o].status \in restaurantStatuses
            => (evt'.writer = RestaurantUser(orders[o].restaurant)
                /\ orders'[o].driver = orders[o].driver)
       /\ orders'[o].status \in driverStatuses
            => (/\ evt'.writer \in Drivers
                /\ orders[o].driver \in {NoUser, evt'.writer}
                /\ orders'[o].driver = evt'.writer)
       /\ orders'[o].status \in validStatuses]_vars

\* an assigned driver has just moved the order on to delivered
C3_Witness ==
  \E o \in OrderIds :
    /\ evt.op = "putStatusUpdate"
    /\ evt.writer \in Drivers
    /\ orders[o].driver = evt.writer
    /\ orders[o].status = "delivered"

\* C4: an order becomes cancelled only through a request of the user of its
\* restaurant and only from confirmed, preparing or ready, on every path.
C4_CancelOnlyFromCancellable ==
  [][\A o \in OrderIds :
       (orders'[o].status = "cancelled" /\ orders[o].status # "cancelled")
         => (/\ evt'.writer = RestaurantUser(orders[o].restaurant)
             /\ orders[o].status \in cancellableStatuses)]_vars

\* the cached snapshot of order o, when there is one, holds status st
CacheHolds(c, o, st, t) == get(c, o, t).present => get(c, o, t).status = st

\* C5: when a status change is acknowledged (REST status update, restaurant
\* accept/ready/cancel, socket event) the cached snapshot of the order holds
\* the new status.
C5_CacheHoldsNewStatus ==
  [][/\ \A r \in PutReqs :
          ((PutStatusGet(r) \/ PutStatusSet(r)) /\ evt'.code = 200)
            => CacheHolds(cache', putReq[r].order, putReq[r].status, now')
     /\ \A u \in Users, o \in OrderIds :
          /\ (AcceptOrder(u, o) /\ evt'.code = 200)
               => CacheHolds(cache', o, "preparing", now')
          /\ (ReadyOrder(u, o) /\ evt'.code = 200)
               => CacheHolds(cache', o, "ready", now')
          /\ (CancelOrder(u, o, TRUE) /\ evt'.code = 200)
               => CacheHolds(cache', o, "cancelled", now')
     /\ \A s \in Sockets, o \in OrderIds, st \in StatusInputs :
          (UpdateOrderStatus(s, o, st) /\ evt'.code = "status-update-confirmed")
            => CacheHolds(cache', o, st, now')]_vars

-----------------------------------------------------------------------------
(* Claims about the location stream *)

\* C6: when a push finds a handle whose write fails, the payload is still
\* written exactly once to every other registered handle, the failing handle
\* leaves the registry, and the driver's request succeeds.
C6_PushSurvivesFailedWrite ==
  [][\A q \in LocReqs : LocPush(q) =>
       LET o == locReq[q].order
           S == Registered(o)
           n == locReq[q].n
       IN /\ \A h \in S : ~conn[h].broken =>
                /\ conn'[h].written = Append(conn[h].written, n)
                /\ h \in RegisteredIn(sseConnections', o)
          /\ \A h \in S : conn[h].broken =>
                /\ conn'[h].written = conn[h].written
                /\ h \notin RegisteredIn(sseConnections', o)
          /\ \A h \in Handles \ S : conn'[h].written = conn[h].written
          /\ RegisteredIn(sseConnections', o) \subseteq S
          /\ evt'.code = 200]_vars

\* a push that found three handles, one of them failing, has left two
C6_Witness ==
  \E o \in OrderIds :
    /\ evt.op = "location"
    /\ evt.code = 200
    /\ evt.size = 3
    /\ Cardinality(Registered(o)) = 2
    /\ \A h \in Registered(o) :
         Len(conn[h].written) > 0 /\ conn[h].written[Len(conn[h].written)] = locSeq

\* C7: the registry maps no order id to an empty handle set.
C7_NoEmptyEntry ==
  \A o \in OrderIds : sseConnections[o].has => sseConnections[o].conns # {}

\* C8: a handle whose connection has closed, whenever that happened after the
\* request was accepted, is absent from the registry and its heartbeat timer
\* is cancelled, once the close has been dispatched and the handler has run.
C8_ClosedHandleCleaned ==
  \A h \in Handles :
    (conn[h].closeEmitted /\ conn[h].pc \in {"open", "ended"})
      => (h \notin Registered(conn[h].order) /\ ~conn[h].timer)

-----------------------------------------------------------------------------
(* Claims about the long-polling wait *)

requestedTimeout(q) == IF Len(q) = 0 THEN defaultTimeout ELSE q[1]

\* the answer carries the row as it is now, completed exactly when terminal
AnswersRow(r, up, t) ==
  /\ r.code = 200
  /\ r.status = up.status
  /\ r.progress = up.progress
  /\ r.completed = (up.status \in terminalUploadStatuses)
  /\ r.at = t

\* C9: a wait returns as soon as the row differs from the snapshot read at
\* the start (another state tag, or progress moved by 5 or more): the poll
\* pass that sees the difference answers with the new snapshot, completed
\* being false unless the state is terminal, and no wait stays suspended
\* for more than one poll interval after the difference arose.
C9_ChangeAnswered ==
  [][\A w \in Waiters :
       /\ (LpCheck(w) /\ upload.state = "stored" /\ Differs(waiter[w].known, upload))
            => \/ (waiter'[w].pc = "done" /\ AnswersRow(waiter'[w].resp, upload, now))
               \/ waiter'[w].pc = "final"
       /\ (LpFinal(w) /\ upload.state = "stored" /\ Differs(waiter[w].known, upload))
            => (waiter'[w].pc = "done" /\ AnswersRow(waiter'[w].resp, upload, now))
       /\ (waiter'[w].pc \in {"wait", "final"} /\ waiter'[w].diffAt >= 0)
            => now' - waiter'[w].diffAt <= pollInterval
       /\ (waiter'[w].pc = "done" /\ waiter'[w].diffAt >= 0)
            => waiter'[w].resp.at - waiter'[w].diffAt <= pollInterval]_vars

\* a non-terminal change answered a full poll interval after it arose
C9_Witness ==
  \E w \in Waiters :
    /\ waiter[w].pc = "done"
    /\ waiter[w].resp.kind = "change"
    /\ waiter[w].known.status = "processing"
    /\ waiter[w].resp.status = "processing"
    /\ ~waiter[w].resp.completed
    /\ waiter[w].resp.at - waiter[w].diffAt = pollInterval

\* C10 as stated: without a change the timed-out answer comes no later than
\* min(requested timeout, 60000 ms) plus 100 ms, for every requested value.
C10_TimeoutWithinRequested ==
  \A w \in Waiters :
    (waiter[w].pc = "done" /\ waiter[w].resp.kind = "timeout" /\ waiter[w].diffAt = -1)
      => waiter[w].resp.at - waiter[w].startTime
           <= Max(0, Min(requestedTimeout(waiter[w].query), maxTimeout)) + 100

\* the statuses the claims call terminal for an upload
TerminalUploadTags == {"completed", "failed"}

\* C11: every status answer of the long poll carries completed = TRUE exactly
\* when the status it reports is completed or failed, whichever path produced
\* it, and a request that finds the upload already terminal is answered in
\* the same step, without waiting.
C11_CompletedIffTerminal ==
  [][\A w \in Waiters :
       /\ (waiter'[w].pc = "done" /\ waiter'[w].resp.code = 200)
            => (waiter'[w].resp.completed
                  <=> waiter'[w].resp.status \in TerminalUploadTags)
       /\ \A u \in RestUsers, q \in TimeoutInputs :
            (/\ LpStart(w, u, q)
             /\ upload.state = "stored" /\ upload.owner = u
             /\ upload.status \in TerminalUploadTags)
              => /\ waiter'[w].pc = "done"
                 /\ waiter'[w].resp.kind = "immediate"
                 /\ waiter'[w].resp.status = upload.status
                 /\ waiter'[w].resp.at = now]_vars

\* a wait that ran into its timeout while the processing finished: the
\* timed-out answer reports completed
C11_Witness ==
  \E w \in Waiters :
    /\ waiter[w].pc = "done"
    /\ waiter[w].resp.kind = "timeout"
    /\ waiter[w].resp.status = "completed"
    /\ waiter[w].resp.completed

\* C12: when the upload row is deleted while a wait for it is suspended, the
\* wait reads once more and then answers "not found" (404), not an internal
\* error.
C12_DeletedAnswersNotFound ==
  [][\A w \in Waiters :
       (LpFinal(w) /\ upload.state = "deleted")
         => (waiter'[w].pc = "done" /\ waiter'[w].resp.code = 404)]_vars

\* C13: once the client of a suspended wait has disconnected, the handler of
\* that request reads the status no more and waits on no further timer.
C13_DisconnectReleasesWait ==
  [][\A w \in Waiters :
       waiter[w].closed => ~(LpCheck(w) \/ LpFinal(w))]_vars

\* the waits that are suspended: sleeping on the timer or awaiting a read
Suspended == {w \in Waiters : waiter[w].pc \in {"wait", "final"}}

-----------------------------------------------------------------------------
(* Claims about the status cache and the short poll *)

\* C15: a short poll serves the cached snapshot only while the entry is
\* present, unexpired and written less than 30 seconds ago; otherwise it reads
\* the status from the store and rewrites the entry with that status and a
\* one-hour lifetime.
C15_CacheServedOnlyFresh ==
  [][\A g \in GetReqs :
       /\ \A u \in Users, o \in OrderIds :
            (GetStatusCache(g, u, o) /\ redisUp) =>
               IF /\ cache[o].present
                  /\ now < cache[o].expiresAt
                  /\ now - cache[o].lastUpdated < 30000
               THEN /\ getReq'[g].pc = "idle" /\ getReq'[g].code = 200
                    /\ getReq'[g].fromCache
                    /\ getReq'[g].status = cache[o].status
               ELSE /\ getReq'[g].pc = "query"
       /\ (GetStatusQuery(g) /\ getReq'[g].pc = "write")
            => getReq'[g].status = orders[getReq[g].order].status
       /\ (GetStatusWrite(g) /\ redisUp) =>
            /\ cache'[getReq[g].order] =
                 [present |-> TRUE, status |-> getReq[g].status,
                  lastUpdated |-> now, expiresAt |-> now + 3600000]
            /\ getReq'[g].code = 200 /\ ~getReq'[g].fromCache
            /\ getReq'[g].status = getReq[g].status
       /\ getReq'[g].fromCache => (\E u \in Users, o \in OrderIds :
                                     GetStatusCache(g, u, o)) \/ getReq[g].fromCache]_vars

\* an entry that went stale was replaced from the store: the poll answered
\* from the store and the entry carries the store's status, written now
C15_Witness ==
  \E g \in GetReqs :
    /\ getReq[g].pc = "idle" /\ getReq[g].code = 200 /\ ~getReq[g].fromCache
    /\ now >= 30000
    /\ cache[getReq[g].order].lastUpdated = now
    /\ cache[getReq[g].order].status = "preparing"
    /\ orders[getReq[g].order].status = "preparing"

\* C16: a failing cache command is treated like an absent entry: while the
\* Redis client rejects its commands, a short poll, a status update and an
\* order creation still complete from the store and none of them answers 500.
C16_CacheErrorsAbsorbed ==
  [][~redisUp =>
       /\ \A g \in GetReqs, u \in Users, o \in OrderIds :
            GetStatusCache(g, u, o) => getReq'[g].pc = "query"
       /\ \A g \in GetReqs : GetStatusWrite(g) => getReq'[g].code = 200
       /\ \A r \in PutReqs :
            (PutStatusGet(r) \/ PutStatusSet(r)) => evt'.code # 500
       /\ \A u \in Customers, o \in OrderIds, R \in Restaurants :
            CreateOrderTx(u, o, R) => orders'[o].state = "open"]_vars

\* C17: for each order the lastUpdated stamp of the cached snapshot never
\* decreases from one cache write to the next, whichever of order creation,
\* repopulating short poll and status update makes the write.
C17_LastUpdatedMonotonic ==
  [][\A o \in OrderIds :
       (cache[o].present /\ cache'[o] # cache[o])
         => (cache'[o].present /\ cache'[o].lastUpdated >= cache[o].lastUpdated)]_vars

\* a status update has just rewritten, at a later time, an entry that a
\* short poll had repopulated after the order's creation
C17_Witness ==
  \E o \in OrderIds, g \in GetReqs :
    /\ evt.op = "putStatus" /\ evt.code = 200
    /\ getReq[g].pc = "idle" /\ getReq[g].code = 200 /\ ~getReq[g].fromCache
    /\ getReq[g].order = o
    /\ cache[o].present /\ cache[o].lastUpdated = now /\ now > 0
    /\ cache[o].status # getReq[g].status

-----------------------------------------------------------------------------
(* Claims about joining rooms and the support chat *)

\* the requests that fail authentication (no valid token, a user type the
\* request is not open to) or the ownership check
StreamOpenDenied(u, o) ==
  UserType(u) # "customer" \/ ~Visible(o) \/ orders[o].customer # u

ChatJoinDenied(tokenUser, c) ==
  \/ tokenUser = NoUser
  \/ UserType(tokenUser) \notin {"customer", "support"}
  \/ c \notin Chats
  \/ (UserType(tokenUser) = "customer" /\ chats[c].customer # tokenUser)
  \/ (UserType(tokenUser) = "support" /\ chats[c].agent \notin {tokenUser, NoUser})

RestaurantJoinDenied(tokenUser, R) ==
  tokenUser = NoUser \/ RestaurantUser(R) # tokenUser

\* C18: a stream-open or room-join request that fails authentication or the
\* ownership check is rejected, and the streaming registry, the connections,
\* and every socket's rooms and session fields are what they were before.
C18_DeniedJoinChangesNothing ==
  [][/\ \A h \in Handles, u \in Users, o \in OrderIds :
          (StreamOpenDenied(u, o) /\ evt'.op = "stream" /\ StreamAccept(h, u, o))
            => /\ evt'.code = 403
               /\ sseConnections' = sseConnections /\ conn' = conn /\ sock' = sock
     /\ \A s \in Sockets, t \in Users \cup {NoUser}, c \in ChatInputs :
          (ChatJoinDenied(t, c) /\ evt'.op = "join-support-chat" /\ JoinChat(s, t, c))
            => /\ evt'.code = "error"
               /\ sseConnections' = sseConnections /\ conn' = conn /\ sock' = sock
     /\ \A s \in Sockets, t \in Users \cup {NoUser}, R \in Restaurants :
          (RestaurantJoinDenied(t, R) /\ evt'.op = "join-restaurant"
             /\ JoinRestaurant(s, t, R))
            => /\ evt'.code = "error"
               /\ sseConnections' = sseConnections /\ conn' = conn /\ sock' = sock]_vars

\* a chat join has just been refused on a socket that is in a chat room and
\* in a restaurant room, while a stream is registered: all of it is still there
C18_Witness ==
  \E s \in Sockets, o \in OrderIds :
    /\ evt.op = "join-support-chat" /\ evt.code = "error"
    /\ sock[s].chatId # 0 /\ sock[s].chatId \in sock[s].rooms
    /\ sock[s].restaurantId # NoRestaurant /\ sock[s].inRoom
    /\ Registered(o) # {}

\* the events socket t receives in this step
NewEvents(t) == SubSeq(inbox'[t], Len(inbox[t]) + 1, Len(inbox'[t]))

\* how many events of a type a sequence of events holds
CountOf(events, type) ==
  Cardinality({i \in DOMAIN events : events[i].type = type})

\* C19: when the handler of an accepted send-message broadcasts, every
\* socket that is then a member of the room of the chat the message was
\* accepted for receives exactly one new-message event, all with the same
\* payload, which carries that message; the sender receives exactly one
\* message-sent acknowledgment.
C19_EveryMemberGetsMessage ==
  [][\A s \in Sockets : SendBroadcast(s) =>
       /\ \A t \in roomMembers(sendReq[s].chat) :
            /\ CountOf(NewEvents(t), "new-message") = 1
            /\ \E i \in DOMAIN NewEvents(t) :
                 /\ NewEvents(t)[i].type = "new-message"
                 /\ NewEvents(t)[i].id = sendReq[s].id
                 /\ NewEvents(t)[i].message = sendReq[s].message
       /\ \A t, v \in roomMembers(sendReq[s].chat) :
            \A i \in DOMAIN NewEvents(t), j \in DOMAIN NewEvents(v) :
              (NewEvents(t)[i].type = "new-message"
                 /\ NewEvents(v)[j].type = "new-message")
                => NewEvents(t)[i] = NewEvents(v)[j]
       /\ CountOf(NewEvents(s), "message-sent") = 1]_vars

\* C20 as stated: the broadcast of a message does not come back to its
\* sender; every other member of the room receives it and the sender
\* receives only the acknowledgment.
C20_NoEchoToSender ==
  [][\A s \in Sockets : SendBroadcast(s) =>
       /\ CountOf(NewEvents(s), "new-message") = 0
       /\ CountOf(NewEvents(s), "message-sent") = 1
       /\ \A t \in roomMembers(sock[s].chatId) \ {s} :
            CountOf(NewEvents(t), "new-message") = 1]_vars

\* C20 amended: the broadcast goes to every member of the room, the sender
\* included: a sender that is in the room receives its own message once, in
\* the same new-message event as the other members, followed by exactly one
\* acknowledgment; a sender that is not in the room receives only the
\* acknowledgment.
C20_SenderGetsEchoAndAck ==
  [][\A s \in Sockets : SendBroadcast(s) =>
       /\ CountOf(NewEvents(s), "message-sent") = 1
       /\ CountOf(NewEvents(s), "new-message")
            = (IF s \in roomMembers(sock[s].chatId) THEN 1 ELSE 0)
       /\ s \in roomMembers(sock[s].chatId)
            => /\ NewEvents(s)[1].type = "new-message"
               /\ NewEvents(s)[1].id = sendReq[s].id
               /\ NewEvents(s)[2].type = "message-sent"
               /\ \A t \in roomMembers(sock[s].chatId) :
                    NewEvents(t)[1] = NewEvents(s)[1]
       /\ \A t \in roomMembers(sock[s].chatId) \ {s} :
            CountOf(NewEvents(t), "new-message") = 1]_vars

\* a message sent in a room of three: the sender holds its own message and
\* the acknowledgment, the two others hold the message
C20_Witness ==
  \E s \in Sockets :
    /\ evt.op = "send-message" /\ evt.code = "message-sent" /\ evt.size = 3
    /\ Len(inbox[s]) = 2
    /\ inbox[s][1].type = "new-message" /\ inbox[s][1].senderId = sock[s].userId
    /\ inbox[s][2].type = "message-sent"
    /\ \A t \in Sockets \ {s} : inbox[t] = <<inbox[s][1]>>

-----------------------------------------------------------------------------
(* Claims about rooms, disconnects and announcements *)

C22_ChatStatusTerminal ==
  [][\A c \in Chats :
       chats'[c].status # chats[c].status
         => /\ chats[c].status = "active"
            /\ chats'[c].status \in {"resolved", "closed"}]_vars

\* C23: a process whose connections to the database and to Redis are up
\* goes on to subscribe to the four announcement channels and only then
\* listens for connections, and a listening process stays subscribed to
\* all four.
C23_SubscribedBeforeListening ==
  [][\A p \in Procs :
       /\ (boot[p] = "redis" /\ boot'[p] # "redis" /\ evt'.op = "startServer")
            => /\ boot'[p] = "listening"
               /\ subs'[p] = subscriberChannels
       /\ boot'[p] = "listening" => subs'[p] = subscriberChannels]_vars

\* how often announcement a occurs among the events box holds for socket t
ReceivedIn(box, t, a) ==
  Cardinality({i \in DOMAIN box[t] : box[t][i].id = a})

\* how often socket t has received announcement a
Received(t, a) == ReceivedIn(annInbox, t, a)

\* C24: a publish on channel announcements-all by one process puts the
\* message once on the subscriber connection of every process, also of the
\* process that did not publish; the relay of that message on a process
\* delivers it once to every socket of that process that is in the room
\* announcements-all, and no socket ever holds an announcement twice.
C24_AllDeliveredOncePerSocket ==
  /\ [][\A p \in Procs :
          /\ (annReq[p].pc = "broadcast" /\ annReq[p].left # <<>> /\ redisUp
                /\ Head(annReq[p].left) = "all" /\ PublishAnnouncement(p))
               => \A q \in Procs :
                    pubsub'[q] = Append(pubsub[q],
                                        [channel |-> "all", id |-> annReq[p].id])
          /\ (evt'.op = "new-announcement" /\ evt'.code = "all"
                /\ RelayAnnouncement(p))
               => \A t \in Sockets :
                    ReceivedIn(annInbox', t, Head(pubsub[p]).id) =
                      Received(t, Head(pubsub[p]).id)
                        + (IF procOf(t) = p /\ "all" \in sock[t].annRooms
                           THEN 1 ELSE 0)]_vars
  /\ [](\A t \in Sockets : \A a \in 1..MaxAnns : Received(t, a) <= 1)

\* an announcement for everyone created on process 1 has been answered and
\* relayed: the subscribed socket of process 1 and the subscribed socket of
\* process 2, which never published, hold it once each
C24_Witness ==
  /\ Len(announcements) = 1 /\ announcements[1].audience = "all"
  /\ annReq = [p \in Procs |-> IdleAnn]
  /\ pubsub = [p \in Procs |-> <<>>]
  /\ \E s, t \in Sockets :
       /\ procOf(s) = 1 /\ procOf(t) = 2
       /\ "all" \in sock[s].annRooms /\ "all" \in sock[t].annRooms
       /\ Received(s, 1) = 1 /\ Received(t, 1) = 1

\* the user type an audience tier is made of
TierUserType(audience) ==
  CASE audience = "customers" -> "customer"
    [] audience = "restaurants" -> "restaurant"
    [] audience = "drivers" -> "driver"
    [] OTHER -> "none"

\* C25: when a process relays an announcement made for one tier, every
\* connected socket of that process that is subscribed as a user of that
\* type receives it once, and no socket subscribed only as another type
\* receives it.
C25_TierReachesItsSubscribers ==
  [][\A p \in Procs :
       (/\ pubsub[p] # <<>>
        /\ announcements[Head(pubsub[p]).id].audience # "all"
        /\ RelayAnnouncement(p))
         => LET a == Head(pubsub[p]).id
                ut == TierUserType(announcements[a].audience)
            IN \A t \in Sockets :
                 procOf(t) = p /\ sock[t].connected
                   => ReceivedIn(annInbox', t, a) =
                        Received(t, a) + (IF ut \in sock[t].annRooms THEN 1 ELSE 0)]_vars

\* C26: a request that has stored its announcement is answered with
\* success, also when a publish to Redis fails on the way, and the stored
\* announcement stays stored.
C26_PublishFailureContained ==
  [][\A p \in Procs :
       (annReq[p].pc = "broadcast" /\ annReq'[p].pc = "idle")
         => /\ evt'.code = 201
            /\ Len(announcements') >= annReq[p].id
            /\ announcements'[annReq[p].id] = announcements[annReq[p].id]]_vars

\* C27: when the creation of an order completes, every connected staff
\* socket that is in the room of the order's restaurant at that moment
\* receives a new-order event for the order.
C27_NewOrderReachesStaff ==
  [][\A o \in OrderIds :
       (orders[o].state = "open" /\ orders'[o].state = "committed")
         => \A t \in restaurantRoom(orders[o].restaurant) :
              \E i \in DOMAIN NewEvents(t) :
                /\ NewEvents(t)[i].type = "new-order"
                /\ NewEvents(t)[i].id = o]_vars

\* the rooms of a socket
Memberships(k) == <<k.rooms, k.inRoom, k.annRooms>>

-----------------------------------------------------------------------------
(* Claims about concurrent pushes and registrations on one order *)

\* the order the push specification is about
PushOrders == {o \in OrderIds : \A r \in OrderIds : o <= r}

InitPush == InitStream

\* two customers' streams on one order open, close and break while the
\* driver's location requests run concurrently
NextPush ==
  \/ \E h \in LeaveHandles, o \in PushOrders : StreamAccept(h, "c1", o)
  \/ \E h \in LeaveHandles : StreamRegister(h)
  \/ \E h \in LeaveHandles : ClientClose(h)
  \/ \E h \in LeaveHandles : CloseEvent(h)
  \/ \E h \in LeaveHandles : HandleBreak(h)
  \/ \E q \in LocReqs, o \in PushOrders : LocCheck(q, "d1", o, TRUE)
  \/ \E q \in LocReqs : LocPush(q)

SpecPush == InitPush /\ [][NextPush]_vars

\* C29: on one order, a push appends its update to the end of what every
\* registered handle whose write succeeds has received, all in the same step,
\* and no other step writes a location to a registered handle: each handle
\* receives the updates in the order the pushes were performed, however the
\* location requests interleave
C29_PushOrderPerHandle ==
  [][/\ \A q \in LocReqs : LocPush(q) =>
          \A h \in Handles :
            conn'[h].written =
              IF h \in Registered(locReq[q].order) /\ ~conn[h].broken
              THEN Append(conn[h].written, locReq[q].n)
              ELSE conn[h].written
     /\ (\A q \in LocReqs : ~LocPush(q)) =>
          \A h \in Handles :
            (conn[h].pc = "open" /\ h \in Registered(conn[h].order)) =>
              conn'[h].written = conn[h].written
    ]_vars

\* two location requests were in flight together and two registered handles
\* have both received their updates, in the order of the two pushes
C29_Witness ==
  \E h \in Handles, g \in Handles :
    /\ h # g
    /\ conn[h].pc = "open"
    /\ {h, g} \subseteq Registered(conn[h].order)
    /\ Len(conn[h].written) >= 2
    /\ conn[h].snap = 0
    /\ conn[g].snap = 0
    /\ SubSeq(conn[h].written, 1, 2) = <<1, 2>>
    /\ conn[g].written = conn[h].written

\* C30: no registration is lost. A registration that has run leaves the
\* handle in its order's set; a registered handle leaves the set only by its
\* own close listener or by a write to it that fails; so an open handle that
\* has not closed and is not broken is a member, whatever other connections
\* did to the order's entry meanwhile
C30_NoLostRegistration ==
  /\ [](\A h \in Handles :
          (conn[h].pc = "open" /\ ~conn[h].closeEmitted /\ ~conn[h].broken) =>
            h \in Registered(conn[h].order))
  /\ [][\A h \in Handles :
          /\ (StreamRegister(h) /\ conn'[h].pc = "open") =>
               h \in RegisteredIn(sseConnections', conn[h].order)
          /\ (/\ conn[h].pc = "open"
              /\ h \in Registered(conn[h].order)
              /\ h \notin RegisteredIn(sseConnections', conn[h].order)) =>
               \/ CloseEvent(h)
               \/ /\ conn[h].broken
                  /\ \/ Heartbeat(h)
                     \/ \E q \in LocReqs :
                          LocPush(q) /\ locReq[q].order = conn[h].order
       ]_vars

\* a registration has just made the order's entry anew: every handle is on
\* the same order and has registered, the earlier ones have closed and the
\* entry was deleted with the last of them, and the newcomer is the member
C30_Witness ==
  \E h \in Handles :
    /\ evt.op = "streamRegister"
    /\ evt.size = 1
    /\ \A k \in Handles : conn[k].pc = "open" /\ conn[k].order = conn[h].order
    /\ ~conn[h].closed
    /\ ~conn[h].broken
    /\ Registered(conn[h].order) = {h}
    /\ \A k \in Handles \ {h} : conn[k].closeEmitted /\ ~conn[k].broken

-----------------------------------------------------------------------------
(* Claims about uploads, restaurant routes, agents, sessions and drivers *)

\* the status changes of the lifecycle uploading -> processing ->
\* {completed | failed}
UploadLifecycle ==
  {<<"uploading", "processing">>, <<"processing", "processing">>,
   <<"processing", "completed">>, <<"processing", "failed">>}

OwnOrder(u, o) ==
  /\ Visible(o)
  /\ UserType(u) = "restaurant"
  /\ RestaurantUser(orders[o].restaurant) = u

\* a route's step on order o for caller u: the change to status `to` with
\* 200 when the order is the caller's and its status is in `from`, and 404
\* with the orders as they were in every other case
ChangesOr404(u, o, from, to) ==
  IF OwnOrder(u, o) /\ orders[o].status \in from
  THEN /\ orders' = [orders EXCEPT ![o].status = to]
       /\ evt'.code = 200
  ELSE /\ orders' = orders
       /\ evt'.code = 404

\* C32 as stated: for a restaurant user, accept, ready and cancel change the
\* order when it is the caller's and in the required status, and answer 404
\* with the order unchanged in every other case
C32_RoutesChangeOr404 ==
  [][evt'.op \in {"accept", "ready", "cancel"} =>
     \A u \in RestUsers, o \in OrderIds :
       /\ (evt'.op = "accept" /\ AcceptOrder(u, o)) =>
            ChangesOr404(u, o, {"confirmed"}, "preparing")
       /\ (evt'.op = "ready" /\ ReadyOrder(u, o)) =>
            ChangesOr404(u, o, {"preparing"}, "ready")
       /\ \A reason \in BOOLEAN :
            (evt'.op = "cancel" /\ CancelOrder(u, o, reason)) =>
              ChangesOr404(u, o, cancellableStatuses, "cancelled")
    ]_vars

\* C32 amended: the same, except that a cancel request without a reason
\* answers 400 and changes nothing whatever the order; and a request of any
\* caller that is not answered 200 leaves the orders as they were
C32_RoutesChangeOr404Or400 ==
  [][evt'.op \in {"accept", "ready", "cancel"} =>
     /\ \A u \in RestUsers, o \in OrderIds :
          /\ (evt'.op = "accept" /\ AcceptOrder(u, o)) =>
               ChangesOr404(u, o, {"confirmed"}, "preparing")
          /\ (evt'.op = "ready" /\ ReadyOrder(u, o)) =>
               ChangesOr404(u, o, {"preparing"}, "ready")
          /\ (evt'.op = "cancel" /\ CancelOrder(u, o, TRUE)) =>
               ChangesOr404(u, o, cancellableStatuses, "cancelled")
          /\ (evt'.op = "cancel" /\ CancelOrder(u, o, FALSE)) =>
               (orders' = orders /\ evt'.code = 400)
     /\ evt'.code # 200 => orders' = orders
    ]_vars

\* a restaurant user has just been refused the cancellation of an order that
\* another restaurant holds in a cancellable status
C32_Witness ==
  /\ evt.op = "cancel"
  /\ evt.code = 404
  /\ \E o \in OrderIds :
       /\ Visible(o)
       /\ orders[o].status \in cancellableStatuses

\* C33: no support agent has more than 10 active chats assigned
C33_AgentLimit ==
  \A u \in SupportUsers : activeChatsOf(u) <= maxConcurrentChats

\* C34: a short poll answered 200 with a status was asked by a user the
\* order may be shown to: for a customer the one who placed it, for a
\* restaurant user the one of the order's restaurant, from cache or store
C34_StatusOnlyToOwner ==
  \A g \in GetReqs :
    (getReq[g].pc = "idle" /\ getReq[g].code = 200) =>
      LET u == getReq[g].user
          o == getReq[g].order
      IN
      /\ UserType(u) = "customer" => orders[o].customer = u
      /\ UserType(u) = "restaurant" =>
           RestaurantUser(orders[o].restaurant) = u

\* C35: a transfer-chat that changes a chat's agent runs on a socket whose
\* authenticated user is a support agent
C35_TransferOnlyBySupport ==
  [][\A s \in RoomSockets :
       (evt'.op = "transfer-chat" /\ TransferUpdate(s) /\ chats' # chats) =>
         UserType(SessionToken(s)) = "support"]_vars

\* C36: a socket is in the announcement room of a user type only if the user
\* of its token has that type
C36_AnnouncementRoomOfOwnType ==
  \A s \in RoomSockets, ut \in validUserTypes :
    ut \in sock[s].annRooms => UserType(SessionToken(s)) = ut

\* C37: a socket is in at most one chat room, and in the room of chat c
\* exactly when its chatId is c
C37_OneChatRoom ==
  \A s \in RoomSockets :
    /\ Cardinality(sock[s].rooms) <= 1
    /\ \A c \in Chats : c \in sock[s].rooms <=> sock[s].chatId = c

\* C38: an order's driver, once set, is never replaced; a driver's request
\* changes an order only when the order has no driver or that driver, and
\* leaves the order with that driver; and an assign request takes a
\* committed, ready order without a driver and is refused with the order
\* unchanged otherwise, so of concurrent requests the first takes the order
C38_OneDriverPerOrder ==
  [][/\ \A o \in OrderIds :
          /\ orders[o].driver # NoUser => orders'[o].driver = orders[o].driver
          /\ (evt'.writer \in Drivers /\ orders'[o] # orders[o]) =>
               /\ orders[o].driver \in {NoUser, evt'.writer}
               /\ orders'[o].driver = evt'.writer
     /\ evt'.op = "assign" =>
          \A u \in Drivers, o \in OrderIds :
            AssignDriver(u, o) =>
              IF /\ Visible(o)
                 /\ orders[o].driver = NoUser
                 /\ orders[o].status = "ready"
              THEN /\ orders' = [orders EXCEPT ![o].driver = u]
                   /\ evt'.code = 200
              ELSE /\ orders' = orders
                   /\ evt'.code = 400
    ]_vars

\* a driver has just been refused an order that is ready and has a driver
C38_Witness ==
  /\ evt.op = "assign"
  /\ evt.code = 400
  /\ \E o \in OrderIds :
       /\ Visible(o)
       /\ orders[o].status = "ready"
       /\ orders[o].driver \in Drivers

\* C39: an update accepted for an order after a customer's stream on that
\* order was authorised is written to that stream by its push, as long as the
\* stream's client is there and its writes succeed: when the push runs the
\* handle has registered, so no update is pushed between the read of the
\* cached location and the registration. A handle that registers has been
\* written the location its read returned
C39_NoUpdateMissed ==
  [][/\ \A q \in LocReqs :
          (evt'.op = "location" /\ evt'.code = 200 /\ LocPush(q)) =>
            \A h \in Handles :
              (/\ conn[h].pc \in {"accepted", "open"}
               /\ conn[h].order = locReq[q].order
               /\ conn[h].since < locReq[q].n
               /\ ~conn[h].closed
               /\ ~conn[h].broken) =>
                conn'[h].written = Append(conn[h].written, locReq[q].n)
     /\ \A h \in Handles :
          (evt'.op = "streamRegister" /\ evt'.code = 0 /\ StreamRegister(h)) =>
            conn'[h].written =
              IF conn[h].snap # 0 THEN <<conn[h].snap>> ELSE <<>>
    ]_vars

\* one stream was authorised before any update and has been pushed both; the
\* other read the first update from the cache and has been pushed the second
C39_Witness ==
  \E h \in Handles, g \in Handles :
    /\ conn[h].pc = "open"
    /\ conn[g].pc = "open"
    /\ conn[g].order = conn[h].order
    /\ conn[h].since = 0
    /\ conn[h].snap = 0
    /\ conn[g].since = 1
    /\ conn[g].snap = 1
    /\ Len(conn[h].written) >= 2
    /\ SubSeq(conn[h].written, 1, 2) = <<1, 2>>
    /\ conn[g].written = conn[h].written

-----------------------------------------------------------------------------
(* Claims about order creations that fail *)

InitCreate == InitOrders

\* customers create orders whose COMMIT succeeds or fails, and poll them
NextCreate ==
  \/ \E u \in {"c1", "c2"}, o \in OrderIds, R \in {"R1"} : CreateOrderTx(u, o, R)
  \/ \E o \in OrderIds : CreateOrderCommit(o)
  \/ \E o \in OrderIds : CreateOrderRollback(o)
  \/ \E g \in GetReqs, u \in {"c1", "c2"}, o \in OrderIds : GetStatusCache(g, u, o)
  \/ \E g \in GetReqs : GetStatusQuery(g)
  \/ \E g \in GetReqs : GetStatusWrite(g)
  \/ RedisFail
  \/ RedisRecover
  \/ \E d \in {TickMs, CacheTtlMs} : Tick(d)

SpecCreate == InitCreate /\ [][NextCreate]_vars

\* C40: an order whose creation was rolled back or has not been made has no
\* entry in the status cache, and no short poll is answered 200 for it
C40_NoEntryWithoutOrder ==
  /\ \A o \in OrderIds :
       orders[o].state \in {"none", "aborted"} => ~get(cache, o, now).present
  /\ \A g \in GetReqs :
       (getReq[g].pc = "idle" /\ getReq[g].code = 200) =>
         orders[getReq[g].order].state # "aborted"

====
